---- MODULE Spec2Model ----
(***************************************************************************)
(* A model of nopher's module fetch engine (internal/fetch/module.go).     *)
(*                                                                         *)
(* Strings are sequences of one-character strings, so that prefix tests,   *)
(* splitting, trimming, escaping and URL formatting are computed           *)
(* character by character as the Go code computes them.                    *)
(***************************************************************************)
EXTENDS Integers, Sequences, FiniteSets, TLC

VARIABLES
    fetcher,    \* the Fetcher struct: Proxy, Private, Netrc (module.go:39-50)
    env,        \* what lies outside: the served archives, the proxy's .info, `go list`
    cache,      \* CacheDir: per cache key, the extracted directory and sidecars
    pc,         \* per caller: the position inside Fetch
    loc,        \* per caller: Fetch's local variables and its returned result
    last,       \* per caller: the result of the caller's previous Fetch call
    tmp,        \* callers whose temporary zip file (nopher-*.zip) exists
    ncalls,     \* number of Fetch calls started
    nfault,       \* number of sidecar writes that failed after their open
    inp,        \* input of the pure function under check
    out         \* its result

vars == <<fetcher, env, cache, pc, loc, last, tmp, ncalls, nfault, inp, out>>

\* the pure-function checks: no input chosen, no result computed
NoInput == [fn |-> "none"]

NoOutput == [set |-> FALSE]

Output(v) == [set |-> TRUE, val |-> v]

(***************************************************************************)
(* Go's strings package, on sequences of characters.                       *)
(***************************************************************************)

\* strings.HasPrefix(s, prefix)
HasPrefix(s, prefix) ==
    /\ Len(prefix) <= Len(s)
    /\ SubSeq(s, 1, Len(prefix)) = prefix

\* strings.HasSuffix(s, suffix)
HasSuffix(s, suffix) ==
    /\ Len(suffix) <= Len(s)
    /\ SubSeq(s, Len(s) - Len(suffix) + 1, Len(s)) = suffix

\* strings.CutSuffix(s, suffix): the part before the suffix (when found)
CutSuffix(s, suffix) == SubSeq(s, 1, Len(s) - Len(suffix))

\* strings.CutPrefix(s, prefix) / strings.TrimPrefix: the part after the prefix
CutPrefix(s, prefix) == SubSeq(s, Len(prefix) + 1, Len(s))

\* unicode.IsSpace on the characters the model uses
IsSpace(c) == c \in {" ", "\t", "\n", "\r"}

\* strings.TrimSpace(s): drops leading and trailing white space
RECURSIVE TrimLeft(_)
TrimLeft(s) ==
    IF s # <<>> /\ IsSpace(Head(s)) THEN TrimLeft(Tail(s)) ELSE s

RECURSIVE TrimRight(_)
TrimRight(s) ==
    IF s # <<>> /\ IsSpace(s[Len(s)])
    THEN TrimRight(SubSeq(s, 1, Len(s) - 1))
    ELSE s

TrimSpace(s) == TrimRight(TrimLeft(s))

\* strings.Index(s, c) for a one-character separator: 0 when absent
RECURSIVE IndexFrom(_, _, _)
IndexFrom(s, c, i) ==
    IF i > Len(s) THEN 0
    ELSE IF s[i] = c THEN i
    ELSE IndexFrom(s, c, i + 1)

Index(s, c) == IndexFrom(s, c, 1)

\* strings.LastIndex(s, c) for a one-character separator: 0 when absent
RECURSIVE LastIndexFrom(_, _, _)
LastIndexFrom(s, c, i) ==
    IF i < 1 THEN 0
    ELSE IF s[i] = c THEN i
    ELSE LastIndexFrom(s, c, i - 1)

LastIndex(s, c) == LastIndexFrom(s, c, Len(s))

\* strings.Split(s, sep) for a one-character separator: the sequence of fields
RECURSIVE Split(_, _)
Split(s, sep) ==
    LET i == Index(s, sep) IN
    IF i = 0 THEN <<s>>
    ELSE <<SubSeq(s, 1, i - 1)>> \o Split(SubSeq(s, i + 1, Len(s)), sep)

\* strings.SplitN(s, sep, n) for a one-character separator: at most n fields,
\* the last one holding the unsplit remainder
RECURSIVE SplitN(_, _, _)
SplitN(s, sep, n) ==
    LET i == Index(s, sep) IN
    IF n <= 1 \/ i = 0 THEN <<s>>
    ELSE <<SubSeq(s, 1, i - 1)>> \o SplitN(SubSeq(s, i + 1, Len(s)), sep, n - 1)

\* strings.Contains(s, sub)
Contains(s, sub) ==
    \E i \in 1..(Len(s) - Len(sub) + 1) : SubSeq(s, i, i + Len(sub) - 1) = sub

(***************************************************************************)
(* The privacy decision: Fetcher.isPrivate and matchPattern.               *)
(***************************************************************************)

\* matchPattern with the "/*" case reduced to a bare prefix test
matchPatternNoBoundary(pattern, modulePath) ==
    IF HasSuffix(pattern, <<"/", "*">>)
    THEN HasPrefix(modulePath, CutSuffix(pattern, <<"/", "*">>))
    ELSE IF HasSuffix(pattern, <<"*">>)
    THEN HasPrefix(modulePath, CutSuffix(pattern, <<"*">>))
    ELSE HasPrefix(modulePath, pattern)

\* matchPattern (module.go:243-251)
matchPattern(pattern, modulePath) ==
    IF HasSuffix(pattern, <<"/", "*">>)
    THEN LET prefix == CutSuffix(pattern, <<"/", "*">>) IN
         \/ HasPrefix(modulePath, prefix \o <<"/">>)
         \/ modulePath = prefix
    ELSE IF HasSuffix(pattern, <<"*">>)
    THEN HasPrefix(modulePath, CutSuffix(pattern, <<"*">>))
    ELSE HasPrefix(modulePath, pattern)

\* the loop of isPrivate over the fields of the list (module.go:230-239)
RECURSIVE anyPatternMatches(_, _)
anyPatternMatches(fields, modulePath) ==
    IF fields = <<>> THEN FALSE
    ELSE LET pattern == TrimSpace(Head(fields)) IN
         IF pattern = <<>> THEN anyPatternMatches(Tail(fields), modulePath)
         ELSE IF matchPattern(pattern, modulePath) THEN TRUE
         ELSE anyPatternMatches(Tail(fields), modulePath)

\* Fetcher.isPrivate (module.go:225-240), with f.Private passed explicitly
isPrivate(private, modulePath) ==
    IF private = <<>> THEN FALSE
    ELSE anyPatternMatches(Split(private, ","), modulePath)

(***************************************************************************)
(* String constants of module.go.                                          *)
(***************************************************************************)

\* "github.com/" (module.go:174, 380, 414)
GitHubPrefix == <<"g", "i", "t", "h", "u", "b", ".", "c", "o", "m", "/">>

\* "https://github.com/" (module.go:394, 431, 442, 469)
GitHubURL == <<"h", "t", "t", "p", "s", ":", "/", "/", "g", "i", "t", "h", "u", "b", ".", "c", "o", "m", "/">>

\* "/gen/go/" (module.go:418, 502)
BSRInfix == <<"/", "g", "e", "n", "/", "g", "o", "/">>

\* "v0.0.0-" (module.go:397)
PseudoPrefix == <<"v", "0", ".", "0", ".", "0", "-">>

\* "refs/tags/" (module.go:403, 472)
RefsTags == <<"r", "e", "f", "s", "/", "t", "a", "g", "s", "/">>

\* "refs/heads/" (module.go:479)
RefsHeads == <<"r", "e", "f", "s", "/", "h", "e", "a", "d", "s", "/">>

\* "https://" (module.go:502, 511)
Https == <<"h", "t", "t", "p", "s", ":", "/", "/">>

\* "/@v/" (module.go:263, 331, 502, 511)
AtV == <<"/", "@", "v", "/">>

\* ".zip" (module.go:263, 442, 476, 483, 490, 502, 511)
DotZip == <<".", "z", "i", "p">>

\* ".info" (module.go:331)
DotInfo == <<".", "i", "n", "f", "o">>

\* "/archive/" (module.go:442, 476, 483, 490)
Archive == <<"/", "a", "r", "c", "h", "i", "v", "e", "/">>

\* ".git" (module.go:470)
DotGit == <<".", "g", "i", "t">>

(***************************************************************************)
(* Escaping: escapePath, escapeVersion (url.PathEscape), extractHost.      *)
(***************************************************************************)

UpperCase == <<"A", "B", "C", "D", "E", "F", "G", "H", "I", "J", "K", "L", "M", "N", "O", "P", "Q", "R", "S", "T", "U", "V", "W", "X", "Y", "Z">>

LowerCase == <<"a", "b", "c", "d", "e", "f", "g", "h", "i", "j", "k", "l", "m", "n", "o", "p", "q", "r", "s", "t", "u", "v", "w", "x", "y", "z">>

Digits == <<"0", "1", "2", "3", "4", "5", "6", "7", "8", "9">>

Range(s) == {s[i] : i \in DOMAIN s}

IsUpper(c) == c \in Range(UpperCase)

\* r + ('a' - 'A') for an upper-case letter r (module.go:584)
ToLower(c) == LowerCase[CHOOSE i \in DOMAIN UpperCase : UpperCase[i] = c]

\* an escapePath that lowers the case and writes no mark
RECURSIVE escapePathNoMark(_)
escapePathNoMark(path) ==
    IF path = <<>> THEN <<>>
    ELSE <<IF IsUpper(Head(path)) THEN ToLower(Head(path)) ELSE Head(path)>>
            \o escapePathNoMark(Tail(path))

\* escapePath (module.go:578-590)
RECURSIVE escapePath(_)
escapePath(path) ==
    IF path = <<>> THEN <<>>
    ELSE IF IsUpper(Head(path))
    THEN <<"!", ToLower(Head(path))>> \o escapePath(Tail(path))
    ELSE <<Head(path)>> \o escapePath(Tail(path))

\* net/url shouldEscape in path-segment mode: letters, digits, the marks
\* - _ . ~ and the reserved $ & + : = @ are kept, everything else is escaped
ShouldEscape(c) ==
    ~ \/ c \in Range(UpperCase) \cup Range(LowerCase) \cup Range(Digits)
      \/ c \in {"-", "_", ".", "~"}
      \/ c \in {"$", "&", "+", ":", "=", "@"}

\* the %XX form of the escaped characters the model uses (ASCII codes)
PctEncode(c) ==
    CASE c = " " -> <<"%", "2", "0">>
      [] c = "!" -> <<"%", "2", "1">>
      [] c = "*" -> <<"%", "2", "A">>
      [] c = "," -> <<"%", "2", "C">>
      [] c = "/" -> <<"%", "2", "F">>
      [] c = ";" -> <<"%", "3", "B">>
      [] c = "?" -> <<"%", "3", "F">>

\* url.PathEscape(s)
RECURSIVE PathEscape(_)
PathEscape(s) ==
    IF s = <<>> THEN <<>>
    ELSE IF ShouldEscape(Head(s))
    THEN PctEncode(Head(s)) \o PathEscape(Tail(s))
    ELSE <<Head(s)>> \o PathEscape(Tail(s))

\* escapeVersion (module.go:593-595)
escapeVersion(version) == PathEscape(version)

\* extractHost (module.go:598-604)
extractHost(modulePath) ==
    LET i == Index(modulePath, "/") IN
    IF i # 0 THEN SubSeq(modulePath, 1, i - 1) ELSE modulePath

(***************************************************************************)
(* Module metadata.  A *ModuleInfo is Nil or a record whose Origin is Nil  *)
(* or a record of VCS, URL, Ref and Hash; the field nil tells which.       *)
(***************************************************************************)

Nil == [nil |-> TRUE]

MkOrigin(vcs, url, ref, hash) ==
    [nil |-> FALSE, VCS |-> vcs, URL |-> url, Ref |-> ref, Hash |-> hash]

MkInfo(version, origin) == [nil |-> FALSE, Version |-> version, Origin |-> origin]

\* Fetcher.getModuleInfo (module.go:324-349).  resp is what the proxy's
\* .info endpoint answers, decoded: Nil for a transport error, a status
\* other than 200 or an undecodable body.
getModuleInfo(proxy, modulePath, version, resp) ==
    IF proxy = <<>> THEN Nil ELSE resp

\* the .info URL getModuleInfo requests (module.go:329-333)
infoURL(proxy, modulePath, version) ==
    proxy \o <<"/">> \o escapePath(modulePath) \o AtV \o escapeVersion(version) \o DotInfo

\* a getModuleInfoManual that takes every version for a tag
getModuleInfoManualAlwaysTag(modulePath, version) ==
    LET parts == SplitN(modulePath, "/", 4)
        url   == GitHubURL \o parts[2] \o <<"/">> \o parts[3]
    IN
    IF HasPrefix(modulePath, GitHubPrefix) /\ Len(parts) >= 3
    THEN MkInfo(version, MkOrigin(<<"g", "i", "t">>, url, RefsTags \o version, <<>>))
    ELSE MkInfo(version, Nil)

\* Fetcher.getModuleInfoManual (module.go:375-409)
getModuleInfoManual(modulePath, version) ==
    LET parts == SplitN(modulePath, "/", 4)
        idx   == LastIndex(version, "-")
        url   == GitHubURL \o parts[2] \o <<"/">> \o parts[3]
    IN
    IF HasPrefix(modulePath, GitHubPrefix) /\ Len(parts) >= 3
    THEN IF HasPrefix(version, PseudoPrefix)
         THEN MkInfo(version,
                     MkOrigin(<<"g", "i", "t">>, url, <<>>,
                              IF idx # 0 /\ idx < Len(version)
                              THEN SubSeq(version, idx + 1, Len(version))
                              ELSE <<>>))
         ELSE MkInfo(version, MkOrigin(<<"g", "i", "t">>, url, RefsTags \o version, <<>>))
    ELSE MkInfo(version, Nil)

\* Fetcher.getModuleInfoFromGoList (module.go:355-371).  golist is the
\* decoded output of `go list -m -json`, Nil when the command or the
\* decoding fails.
getModuleInfoFromGoList(modulePath, version, golist) ==
    IF golist.nil THEN getModuleInfoManual(modulePath, version) ELSE golist

\* Fetcher.getGitHubModuleInfo (module.go:451-463)
getGitHubModuleInfo(proxy, private, modulePath, version, resp, golist) ==
    IF isPrivate(private, modulePath)
    THEN getModuleInfoFromGoList(modulePath, version, golist)
    ELSE LET info == getModuleInfo(proxy, modulePath, version, resp) IN
         IF ~info.nil /\ ~info.Origin.nil THEN info
         ELSE getModuleInfoFromGoList(modulePath, version, golist)

\* a buildGitHubArchiveURL that prefers the commit hash to the ref
buildGitHubArchiveURLHashFirst(info) ==
    LET noScheme == IF HasPrefix(info.Origin.URL, GitHubURL)
                    THEN CutPrefix(info.Origin.URL, GitHubURL)
                    ELSE info.Origin.URL
        repoURL  == IF HasSuffix(noScheme, DotGit)
                    THEN CutSuffix(noScheme, DotGit)
                    ELSE noScheme
        ref      == info.Origin.Ref
    IN
    IF info.Origin.Hash # <<>>
    THEN GitHubURL \o repoURL \o Archive \o info.Origin.Hash \o DotZip
    ELSE IF HasPrefix(ref, RefsTags)
    THEN GitHubURL \o repoURL \o Archive \o RefsTags
            \o PathEscape(CutPrefix(ref, RefsTags)) \o DotZip
    ELSE IF HasPrefix(ref, RefsHeads)
    THEN GitHubURL \o repoURL \o Archive \o RefsHeads
            \o PathEscape(CutPrefix(ref, RefsHeads)) \o DotZip
    ELSE <<>>

\* Fetcher.buildGitHubArchiveURL (module.go:468-494)
buildGitHubArchiveURL(info) ==
    LET noScheme == IF HasPrefix(info.Origin.URL, GitHubURL)
                    THEN CutPrefix(info.Origin.URL, GitHubURL)
                    ELSE info.Origin.URL
        repoURL  == IF HasSuffix(noScheme, DotGit)
                    THEN CutSuffix(noScheme, DotGit)
                    ELSE noScheme
        ref      == info.Origin.Ref
    IN
    IF HasPrefix(ref, RefsTags)
    THEN GitHubURL \o repoURL \o Archive \o RefsTags
            \o PathEscape(CutPrefix(ref, RefsTags)) \o DotZip
    ELSE IF HasPrefix(ref, RefsHeads)
    THEN GitHubURL \o repoURL \o Archive \o RefsHeads
            \o PathEscape(CutPrefix(ref, RefsHeads)) \o DotZip
    ELSE IF info.Origin.Hash # <<>>
    THEN GitHubURL \o repoURL \o Archive \o info.Origin.Hash \o DotZip
    ELSE <<>>

\* Fetcher.buildBSRURL (module.go:498-503)
buildBSRURL(modulePath, version) ==
    Https \o extractHost(modulePath) \o BSRInfix \o escapePath(modulePath)
        \o AtV \o escapeVersion(version) \o DotZip

\* a buildGenericURL that leaves the host segment out of the URL's path
buildGenericURLRemainder(modulePath, version) ==
    LET i == Index(modulePath, "/") IN
    Https \o extractHost(modulePath) \o <<"/">>
        \o escapePath(IF i # 0 THEN SubSeq(modulePath, i + 1, Len(modulePath)) ELSE <<>>)
        \o AtV \o escapeVersion(version) \o DotZip

\* Fetcher.buildGenericURL (module.go:507-512)
buildGenericURL(modulePath, version) ==
    Https \o extractHost(modulePath) \o <<"/">> \o escapePath(modulePath)
        \o AtV \o escapeVersion(version) \o DotZip

\* Fetcher.buildGitHubURL (module.go:427-446)
buildGitHubURL(proxy, private, modulePath, version, resp, golist) ==
    LET info  == getGitHubModuleInfo(proxy, private, modulePath, version, resp, golist)
        parts == SplitN(modulePath, "/", 4)
        usable == /\ ~info.nil
                  /\ ~info.Origin.nil
                  /\ info.Origin.VCS = <<"g", "i", "t">>
                  /\ HasPrefix(info.Origin.URL, GitHubURL)
    IN
    IF usable /\ buildGitHubArchiveURL(info) # <<>>
    THEN buildGitHubArchiveURL(info)
    ELSE IF Len(parts) >= 3
    THEN GitHubURL \o parts[2] \o <<"/">> \o parts[3] \o Archive \o RefsTags
            \o version \o DotZip
    ELSE buildGenericURL(modulePath, version)

\* a directURL that looks for the registry infix before the github.com prefix
directURLRegistryFirst(proxy, private, modulePath, version, resp, golist) ==
    IF Contains(modulePath, BSRInfix)
    THEN buildBSRURL(modulePath, version)
    ELSE IF HasPrefix(modulePath, GitHubPrefix)
    THEN buildGitHubURL(proxy, private, modulePath, version, resp, golist)
    ELSE buildGenericURL(modulePath, version)

\* Fetcher.directURL (module.go:413-423)
directURL(proxy, private, modulePath, version, resp, golist) ==
    IF HasPrefix(modulePath, GitHubPrefix)
    THEN buildGitHubURL(proxy, private, modulePath, version, resp, golist)
    ELSE IF Contains(modulePath, BSRInfix)
    THEN buildBSRURL(modulePath, version)
    ELSE buildGenericURL(modulePath, version)

\* the shared-proxy archive URL (module.go:261-263)
proxyURL(proxy, modulePath, version) ==
    proxy \o <<"/">> \o escapePath(modulePath) \o AtV \o escapeVersion(version) \o DotZip

\* getDownloadURL that prefers the proxy without asking isPrivate
getDownloadURLIgnorePrivate(proxy, private, modulePath, version, resp, golist) ==
    IF proxy # <<>>
    THEN proxyURL(proxy, modulePath, version)
    ELSE directURL(proxy, private, modulePath, version, resp, golist)

\* Fetcher.getDownloadURL (module.go:255-267)
getDownloadURL(proxy, private, modulePath, version, resp, golist) ==
    IF isPrivate(private, modulePath)
    THEN directURL(proxy, private, modulePath, version, resp, golist)
    ELSE IF proxy # <<>>
    THEN proxyURL(proxy, modulePath, version)
    ELSE directURL(proxy, private, modulePath, version, resp, golist)

(***************************************************************************)
(* Bounds and the finite world the Fetch model runs in.                    *)
(***************************************************************************)

\* number of callers of Fetch sharing one cache root
NProcs == 2

\* number of Fetch calls a single caller makes one after the other
MaxCalls == 2

\* number of Fetch calls in a run that starts from any configuration
MaxConfigCalls == 1

\* number of disk operations that fail part-way in one run: a read of a
\* file that is there, a removal that stops short, a write that fails
\* after its open
MaxFaults == 1

\* number of Fetch calls started in one run of overlapping callers
MaxOverlapCalls == 2

Procs == 1..NProcs

\* the packages fetched: a module under the private patterns with a tagged
\* version, a module that is always public with a pseudo-version, the
\* empty module path, the first module at a version that is the first
\* version with ".hash" after it, and a module on a host of its own
PkgPath ==
    << <<"g", "i", "t", "h", "u", "b", ".", "c", "o", "m", "/", "o", "/", "p">>,
       <<"g", "i", "t", "h", "u", "b", ".", "c", "o", "m", "/", "e", "/", "r">>,
       <<>>,
       <<"g", "i", "t", "h", "u", "b", ".", "c", "o", "m", "/", "o", "/", "p">>,
       <<"x", ".", "i", "o", "/", "M", "o", "d">> >>

PkgVersion ==
    << <<"v", "1", ".", "2", ".", "3">>,
       <<"v", "0", ".", "0", ".", "0", "-", "1", "-", "a", "b", "c">>,
       <<"v", "1", ".", "2", ".", "3">>,
       <<"v", "1", ".", "2", ".", "3", ".", "h", "a", "s", "h">>,
       <<"v", "1", ".", "2", ".", "3">> >>

\* the package with the empty module path
EmptyPathRef == 3

\* the package whose cachedDir is the .hash sidecar of the first package
AliasRef == 4

\* the package on a host of its own
HostRef == 5

\* the packages overlapping callers fetch
Refs == {1, 2}

\* the packages a single caller fetches one after the other
SeqRefs == Refs \cup {AliasRef}

\* the packages fetched in the runs that start from any configuration
ConfigRefs == Refs \cup {HostRef}

\* values of Fetcher.Proxy after NewFetcher (module.go:80-89): none, a
\* proxy on a host of its own, and a proxy base that is https://<host> of
\* a fetched module
ProxyBase == <<"h", "t", "t", "p", "s", ":", "/", "/", "p", ".", "i", "o">>

HostProxy == <<"h", "t", "t", "p", "s", ":", "/", "/", "x", ".", "i", "o">>

Proxies == {<<>>, ProxyBase, HostProxy}

\* values of Fetcher.Private (module.go:91-94)
PrivateLists == {<<>>, <<"g", "i", "t", "h", "u", "b", ".", "c", "o", "m", "/", "o", "/", "*", ",", "x", ".", "i", "o">>}

\* a netrc machine entry; Default marks the `default` entry
Machine(name, isDefault, login) ==
    [nil |-> FALSE, Name |-> name, Default |-> isDefault, Login |-> login]

\* contents of ~/.netrc: no entry, an entry for github.com only, an entry
\* for x.io only, only a default
Netrcs ==
    { <<>>,
      <<Machine(<<"g", "i", "t", "h", "u", "b", ".", "c", "o", "m">>, FALSE, "gh-user")>>,
      <<Machine(<<"x", ".", "i", "o">>, FALSE, "x-user")>>,
      <<Machine(<<>>, TRUE, "default-user")>> }

\* what the servers hold for every package: a well-formed archive, an
\* archive holding only its root directory entry, or bytes that are no zip
ServedKinds == {"good", "rootonly", "corrupt"}

\* a full 40-character commit hash, as `go list` and the proxy report it
FullHash == <<"0", "1", "2", "3", "4", "5", "6", "7", "8", "9", "a", "b", "c", "d", "e", "f", "0", "1", "2", "3", "4", "5", "6", "7", "8", "9", "a", "b", "c", "d", "e", "f", "0", "1", "2", "3", "4", "5", "6", "7">>

\* the repository an Origin names for a module
RepoURL(modulePath) ==
    LET parts == SplitN(modulePath, "/", 4) IN
    IF HasPrefix(modulePath, GitHubPrefix) /\ Len(parts) >= 3
    THEN GitHubURL \o parts[2] \o <<"/">> \o parts[3]
    ELSE Https \o modulePath

\* the Origin the proxy and `go list` report: the full commit hash and,
\* for a tagged version, the tag ref
ReportedOrigin(modulePath, version) ==
    MkOrigin(<<"g", "i", "t">>, RepoURL(modulePath),
             IF HasPrefix(version, PseudoPrefix) THEN <<>> ELSE RefsTags \o version,
             FullHash)

\* the decoded output of `go list -m -json path@version`: Nil when the
\* tool fails
GoListOutput(modulePath, version, works) ==
    IF works THEN MkInfo(version, ReportedOrigin(modulePath, version)) ELSE Nil

\* how the proxy's .info endpoint answers: not at all (or not with 200 and
\* a decodable body), with a body without Origin, with a body with Origin
InfoKinds == {"fail", "noorigin", "origin"}

\* the decoded answer of the proxy's .info endpoint
InfoResponse(modulePath, version, kind) ==
    IF kind = "fail" THEN Nil
    ELSE IF kind = "noorigin" THEN MkInfo(version, Nil)
    ELSE MkInfo(version, ReportedOrigin(modulePath, version))

(***************************************************************************)
(* The cache root (module.go:118-122).  The variable cache is the file     *)
(* system below f.CacheDir: what is at each path, written relative to the  *)
(* cache root.  Two keys have paths in common when one key is the other    *)
(* with ".hash", ".url" or ".rev" after it.                                *)
(***************************************************************************)

\* cacheKey := escapePath(modulePath) + "@" + version (module.go:118)
cacheKey(modulePath, version) == escapePath(modulePath) \o <<"@">> \o version

KeyOf(r) == cacheKey(PkgPath[r], PkgVersion[r])

Keys == {KeyOf(r) : r \in DOMAIN PkgPath}

\* hashFile := cachedDir + ".hash" (module.go:120)
hashFile(k) == k \o <<".", "h", "a", "s", "h">>

\* urlFile := cachedDir + ".url" (module.go:121)
urlFile(k) == k \o <<".", "u", "r", "l">>

\* revFile := cachedDir + ".rev" (module.go:122)
revFile(k) == k \o <<".", "r", "e", "v">>

\* the directory a path is in: what precedes its last '/', the cache root
\* (the empty path) for a path without one
ParentDir(path) ==
    LET slashes == {i \in 1..Len(path) : path[i] = "/"} IN
    IF slashes = {} THEN <<>>
    ELSE SubSeq(path, 1, (CHOOSE i \in slashes : \A j \in slashes : j <= i) - 1)

\* the paths Fetch uses: cachedDir of each key, its three sidecars and the
\* directory they are in
FsPaths == UNION {{ParentDir(k), k, hashFile(k), urlFile(k), revFile(k)} : k \in Keys}

\* what is at a path: nothing, a file holding data, or a directory
\* holding the named files and directories
NoFile == [exists |-> FALSE, isDir |-> FALSE, data |-> <<>>, files |-> {}]

File(data) == [exists |-> TRUE, isDir |-> FALSE, data |-> data, files |-> {}]

Dir(files) == [exists |-> TRUE, isDir |-> TRUE, data |-> <<>>, files |-> files]

IsFile(node) == node.exists /\ ~node.isDir

\* the cache root NewFetcher has made (module.go:61-65), with nothing in it
EmptyCache == [q \in FsPaths |-> IF q = <<>> THEN Dir({}) ELSE NoFile]

(***************************************************************************)
(* Archives.                                                               *)
(***************************************************************************)

\* the bytes a server sends for a package: they depend on the package and
\* on whether the proxy or the origin host serves them
ServedBytes(proxy, url, r) ==
    [ref |-> r, viaProxy |-> proxy # <<>> /\ HasPrefix(url, proxy \o <<"/">>)]

\* base64 SHA-256 digests of the served bytes, one token each
DigestTable ==
    << <<"Dp1", "Dd1">>, <<"Dp2", "Dd2">>, <<"Dp3", "Dd3">>, <<"Dp4", "Dd4">>,
       <<"Dp5", "Dd5">> >>

\* computeZipHash (module.go:209-222): "sha256-" + base64(sha256(bytes))
computeZipHash(bytes) ==
    <<"s", "h", "a", "2", "5", "6", "-">> \o <<DigestTable[bytes.ref][IF bytes.viaProxy THEN 1 ELSE 2]>>

ZipEntry(name, isDir) == [name |-> name, isDir |-> isDir]

\* the entries of a served archive: the proxy roots them at path@version/,
\* the origin host at a directory of its own naming; a well-formed archive
\* holds its root directory, a file in it, a directory in it and a file in
\* that directory
ZipEntries(bytes, kind) ==
    LET root == IF bytes.viaProxy
                THEN PkgPath[bytes.ref] \o <<"@">> \o PkgVersion[bytes.ref] \o <<"/">>
                ELSE <<"s", "r", "c", "-", "1", "/">>
    IN
    IF kind = "good"
    THEN << ZipEntry(root, TRUE),
            ZipEntry(root \o <<"g", "o", ".", "m", "o", "d">>, FALSE),
            ZipEntry(root \o <<"a", "/">>, TRUE),
            ZipEntry(root \o <<"a", "/", "b", ".", "g", "o">>, FALSE) >>
    ELSE << ZipEntry(root, TRUE) >>

\* the name an entry is extracted under (module.go:526-536)
stripName(name, modulePath, version) ==
    LET prefix == modulePath \o <<"@">> \o version \o <<"/">>
        i      == Index(name, "/")
    IN
    IF HasPrefix(name, prefix) THEN CutPrefix(name, prefix)
    ELSE IF i # 0 THEN SubSeq(name, i + 1, Len(name))
    ELSE name

\* the directories below targetDir that a name lies in, itself included
\* when it ends in '/': what precedes each '/' of the name
DirsAbove(name) == {SubSeq(name, 1, i - 1) : i \in {j \in 2..Len(name) : name[j] = "/"}}

\* the files and directories extract makes below targetDir for an archive
ExtractedNames(bytes, kind) ==
    UNION { LET e    == ZipEntries(bytes, kind)[i]
                name == stripName(e.name, PkgPath[bytes.ref], PkgVersion[bytes.ref])
            IN
            IF name = <<>> THEN {}
            ELSE IF e.isDir THEN DirsAbove(name)
            ELSE DirsAbove(name) \cup {name} :
            i \in DOMAIN ZipEntries(bytes, kind) }

(***************************************************************************)
(* Credentials: the lookup downloadFromURL makes in the parsed netrc.      *)
(***************************************************************************)

\* Netrc.FindMachine(host, "") as called at module.go:281: the first entry
\* named host, else the last default entry, else nil
RECURSIVE FindMachineFrom(_, _, _)
FindMachineFrom(machines, name, def) ==
    IF machines = <<>> THEN def
    ELSE IF ~Head(machines).Default /\ Head(machines).Name = name THEN Head(machines)
    ELSE FindMachineFrom(Tail(machines), name,
                         IF Head(machines).Default THEN Head(machines) ELSE def)

FindMachine(netrc, name) == FindMachineFrom(netrc, name, Nil)

\* the credentials downloadFromURL attaches whenever the netrc has an entry
\* for the host, private module or not
downloadAuthAnyModule(private, netrc, modulePath) ==
    FindMachine(netrc, extractHost(modulePath))

\* the credentials downloadFromURL attaches to its request (module.go:277-289):
\* Nil when it uses the plain client
downloadAuth(private, netrc, modulePath) ==
    IF isPrivate(private, modulePath)
    THEN FindMachine(netrc, extractHost(modulePath))
    ELSE Nil

\* an HTTP request: the URL, the credentials sent with it (Nil for none),
\* whether it asks for an archive or for metadata, and the package whose
\* Fetch issued it; loc[p].reqs holds the requests of the caller's call
Request(url, auth, kind, r) == [url |-> url, auth |-> auth, kind |-> kind, ref |-> r]

\* the request getModuleInfo sends to the proxy: http.Get, no credentials
\* (module.go:325-333)
infoRequests(proxy, r) ==
    IF proxy = <<>> THEN {}
    ELSE {Request(infoURL(proxy, PkgPath[r], PkgVersion[r]), Nil, "info", r)}

\* metadata lookup that asks the proxy for private modules too
metadataRequestsAlwaysProxy(proxy, private, r) == infoRequests(proxy, r)

\* the requests of the metadata lookups in getGitHubModuleInfo
\* (module.go:452-457) and in Fetch (module.go:178-181): a private module
\* is looked up with `go list` only
metadataRequests(proxy, private, r) ==
    IF isPrivate(private, PkgPath[r]) THEN {} ELSE infoRequests(proxy, r)

\* the requests getDownloadURL issues while resolving (module.go:255-267,
\* 413-416, 427-428): only the github.com direct route looks up metadata
resolveRequests(proxy, private, r) ==
    IF ~isPrivate(private, PkgPath[r]) /\ proxy # <<>> THEN {}
    ELSE IF HasPrefix(PkgPath[r], GitHubPrefix) THEN metadataRequests(proxy, private, r)
    ELSE {}

(***************************************************************************)
(* Fetcher.Fetch (module.go:117-206) as a state machine.  Each caller      *)
(* runs Fetch step by step; steps of different callers interleave, as      *)
(* they do for invocations that share the user's cache directory.          *)
(***************************************************************************)

\* a *FetchResult and error pair: ok tells which one is set
\* (ModulePath, Version and Dir of the result are those of package r)
FetchResult(r, hash, url, rev) ==
    [ok |-> TRUE, ref |-> r, Hash |-> hash, URL |-> url, Rev |-> rev, err |-> <<>>]

FetchError(r, msg, cause) ==
    [ok |-> FALSE, ref |-> r, Hash |-> <<>>, URL |-> <<>>, Rev |-> <<>>, err |-> <<msg, cause>>]

NoResult == FetchError(1, "", "")

NoBytes == [ref |-> 0, viaProxy |-> FALSE]

\* Fetch's locals at entry
FreshLocals(r) ==
    [ref |-> r, url |-> <<>>, bytes |-> NoBytes, zipHash |-> <<>>, next |-> 0,
     hashData |-> NoFile, urlData |-> NoFile, opened |-> FALSE,
     hit |-> FALSE, reqs |-> {}, res |-> NoResult]

\* what is kept of a returned call: the package, whether it succeeded,
\* whether it was a cache hit, and the hash, URL and revision it returned
NoCall == [nil |-> TRUE]

Returned(l) ==
    [nil |-> FALSE, ref |-> l.ref, ok |-> l.res.ok, hit |-> l.hit, Hash |-> l.res.Hash,
     URL |-> l.res.URL, Rev |-> l.res.Rev]

InCall(p) == pc[p] \notin {"idle", "done", "failed"}

Path(p) == PkgPath[loc[p].ref]

Version(p) == PkgVersion[loc[p].ref]

Key(p) == KeyOf(loc[p].ref)

\* the revision Fetch records (module.go:173-190)
fetchGitRev(proxy, private, modulePath, version, resp, golist) ==
    LET fromProxy == getModuleInfo(proxy, modulePath, version, resp)
        info == IF isPrivate(private, modulePath)
                THEN getModuleInfoFromGoList(modulePath, version, golist)
                ELSE IF fromProxy.nil
                THEN getModuleInfoFromGoList(modulePath, version, golist)
                ELSE fromProxy
    IN
    IF HasPrefix(modulePath, GitHubPrefix) /\ ~info.nil /\ ~info.Origin.nil
    THEN info.Origin.Hash
    ELSE <<>>

\* no caller inside Fetch
IdleCallers ==
    /\ pc = [p \in Procs |-> "idle"]
    /\ loc = [p \in Procs |-> FreshLocals(1)]
    /\ last = [p \in Procs |-> NoCall]
    /\ tmp = {}
    /\ ncalls = 0
    /\ nfault = 0

\* an empty cache root and no caller inside Fetch
IdleFetch ==
    /\ cache = EmptyCache
    /\ IdleCallers

\* the state after NewFetcher, before any Fetch
Idle ==
    /\ IdleFetch
    /\ inp = NoInput
    /\ out = NoOutput

\* the configurations of the Fetcher and of the world around it
Configured ==
    /\ fetcher \in [Proxy : Proxies, Private : PrivateLists, Netrc : Netrcs]
    /\ env \in [served : ServedKinds, golist : BOOLEAN, info : InfoKinds]
    /\ fetcher.Proxy = <<>> => env.info = "fail"

\* every configuration, on an empty cache root
Init ==
    /\ Configured
    /\ Idle

\* a proxy, the private patterns and credentials for github.com
OneFetcher ==
    [Proxy |-> ProxyBase, Private |-> CHOOSE l \in PrivateLists : l # <<>>,
     Netrc |-> CHOOSE n \in Netrcs : n # <<>> /\ n[1].Name = <<"g", "i", "t", "h", "u", "b", ".", "c", "o", "m">>]

\* the configuration the overlapping callers run in: a served archive of
\* any kind, metadata with an Origin
InitOverlap ==
    /\ fetcher = OneFetcher
    /\ env \in [served : ServedKinds, golist : {TRUE}, info : {"origin"}]
    /\ Idle

\* the configuration the calls that follow one another run in: a served
\* archive of any kind, metadata of any kind
InitSeq ==
    /\ fetcher = OneFetcher
    /\ env \in [served : ServedKinds, golist : BOOLEAN, info : InfoKinds]
    /\ Idle

\* the cache root after a Fetch of package r that was served a well-formed
\* archive and wrote its three sidecars
PopulatedCache(f, e, r) ==
    LET info  == InfoResponse(PkgPath[r], PkgVersion[r], e.info)
        list  == GoListOutput(PkgPath[r], PkgVersion[r], e.golist)
        url   == getDownloadURL(f.Proxy, f.Private, PkgPath[r], PkgVersion[r], info, list)
        rev   == fetchGitRev(f.Proxy, f.Private, PkgPath[r], PkgVersion[r], info, list)
        bytes == ServedBytes(f.Proxy, url, r)
        k     == KeyOf(r)
    IN
    [q \in FsPaths |->
        IF q \in {<<>>, ParentDir(k)} THEN Dir({})
        ELSE IF q = k THEN Dir(ExtractedNames(bytes, "good"))
        ELSE IF q = hashFile(k) THEN File(computeZipHash(bytes))
        ELSE IF q = urlFile(k) THEN File(url)
        ELSE IF q = revFile(k) /\ rev # <<>> THEN File(rev)
        ELSE NoFile]

\* every configuration, on a cache root that is empty or that an earlier
\* run has populated for the first package
InitConfig ==
    /\ Configured
    /\ cache \in {EmptyCache, PopulatedCache(fetcher, env, 1)}
    /\ IdleCallers
    /\ inp = NoInput
    /\ out = NoOutput

\* a caller enters Fetch(PkgPath[r], PkgVersion[r])
Call(p, r) ==
    /\ ~InCall(p)
    /\ ncalls' = ncalls + 1
    /\ last' = [last EXCEPT ![p] = IF pc[p] = "idle" THEN @ ELSE Returned(loc[p])]
    /\ loc' = [loc EXCEPT ![p] = FreshLocals(r)]
    /\ pc' = [pc EXCEPT ![p] = "stat"]
    /\ UNCHANGED <<fetcher, env, cache, tmp, nfault, inp, out>>

\* any caller calls Fetch, whatever the other callers are doing
Start(p, r) ==
    /\ ncalls < MaxOverlapCalls
    /\ Call(p, r)

\* the first caller calls Fetch; no other caller ever does
StartSeq(p, r) ==
    /\ p = 1
    /\ ncalls < MaxCalls
    /\ Call(p, r)

\* the first caller calls Fetch in a run that starts from any configuration
StartConfig(p, r) ==
    /\ p = 1
    /\ ncalls < MaxConfigCalls
    /\ Call(p, r)

\* info, err := os.Stat(cachedDir); err == nil && info.IsDir()
\* (module.go:124)
Stat(p) ==
    /\ pc[p] = "stat"
    /\ pc' = [pc EXCEPT ![p] = IF cache[Key(p)].isDir THEN "read" ELSE "resolve"]
    /\ UNCHANGED <<fetcher, env, cache, loc, last, tmp, ncalls, nfault, inp, out>>

\* os.ReadFile of a path: read is the file there; or read is NoFile, for
\* the error returned when nothing or a directory is there, and when the
\* file that is there cannot be read
ReadFile(node, read) ==
    \/ /\ IsFile(node)
       /\ read = node
       /\ nfault' = nfault
    \/ /\ ~IsFile(node)
       /\ read = NoFile
       /\ nfault' = nfault
    \/ /\ IsFile(node)
       /\ nfault < MaxFaults
       /\ read = NoFile
       /\ nfault' = nfault + 1

\* hashData, hashErr := os.ReadFile(hashFile) (module.go:125)
ReadHash(p) ==
    /\ pc[p] = "read"
    /\ \E read \in {cache[hashFile(Key(p))], NoFile} :
         /\ ReadFile(cache[hashFile(Key(p))], read)
         /\ loc' = [loc EXCEPT ![p].hashData = read]
    /\ pc' = [pc EXCEPT ![p] = "rurl"]
    /\ UNCHANGED <<fetcher, env, cache, last, tmp, ncalls, inp, out>>

\* urlData, urlErr := os.ReadFile(urlFile) (module.go:126)
ReadURL(p) ==
    /\ pc[p] = "rurl"
    /\ \E read \in {cache[urlFile(Key(p))], NoFile} :
         /\ ReadFile(cache[urlFile(Key(p))], read)
         /\ loc' = [loc EXCEPT ![p].urlData = read]
    /\ pc' = [pc EXCEPT ![p] = "rrev"]
    /\ UNCHANGED <<fetcher, env, cache, last, tmp, ncalls, inp, out>>

\* revData, revErr := os.ReadFile(revFile) and the return of the cached
\* result when the hash sidecar was read (module.go:127-146); the three
\* reads are three steps, and what the first two read is dropped with them
ReadSidecars(p) ==
    LET hashData == loc[p].hashData
        urlData  == loc[p].urlData
    IN
    /\ pc[p] = "rrev"
    /\ \E revData \in {cache[revFile(Key(p))], NoFile} :
         /\ ReadFile(cache[revFile(Key(p))], revData)
         /\ IF hashData.exists
            THEN /\ loc' = [loc EXCEPT
                              ![p].hashData = NoFile,
                              ![p].urlData = NoFile,
                              ![p].hit = TRUE,
                              ![p].res = FetchResult(loc[p].ref, TrimSpace(hashData.data),
                                             IF urlData.exists THEN TrimSpace(urlData.data) ELSE <<>>,
                                             IF revData.exists THEN TrimSpace(revData.data) ELSE <<>>)]
                 /\ pc' = [pc EXCEPT ![p] = "done"]
            ELSE /\ loc' = [loc EXCEPT ![p].hashData = NoFile, ![p].urlData = NoFile]
                 /\ pc' = [pc EXCEPT ![p] = "resolve"]
    /\ UNCHANGED <<fetcher, env, cache, last, tmp, ncalls, inp, out>>

\* downloadURL := f.getDownloadURL(modulePath, version) (module.go:148)
Resolve(p) ==
    /\ pc[p] = "resolve"
    /\ loc' = [loc EXCEPT
                 ![p].url = getDownloadURL(fetcher.Proxy, fetcher.Private, Path(p), Version(p),
                                           InfoResponse(Path(p), Version(p), env.info),
                                           GoListOutput(Path(p), Version(p), env.golist)),
                 ![p].reqs = @ \cup resolveRequests(fetcher.Proxy, fetcher.Private,
                                                    loc[p].ref)]
    /\ pc' = [pc EXCEPT ![p] = "download"]
    /\ UNCHANGED <<fetcher, env, cache, last, tmp, ncalls, nfault, inp, out>>

\* the URL names no host ("https:///..."): client.Do fails with "no Host in
\* request URL" before anything is sent
NoHost(url) == HasPrefix(url, Https \o <<"/">>)

\* downloadFromURL and computeZipHash (module.go:150-159, 209-222, 272-319):
\* one GET of the resolved URL; a transport error or a status other than
\* 200 ends Fetch with an error, and so does a temporary file that cannot
\* be read back for hashing, which the deferred os.Remove then deletes
Download(p) ==
    /\ pc[p] = "download"
    /\ \E outcome \in IF NoHost(loc[p].url) THEN {"transport error"}
                       ELSE {"200", "transport error", "unexpected status",
                             "200, not hashed"} :
         LET sent == IF NoHost(loc[p].url) THEN {}
                     ELSE {Request(loc[p].url,
                                   downloadAuth(fetcher.Private, fetcher.Netrc, Path(p)),
                                   "zip", loc[p].ref)}
         IN
         IF outcome = "200"
         THEN LET bytes == ServedBytes(fetcher.Proxy, loc[p].url, loc[p].ref) IN
              /\ loc' = [loc EXCEPT ![p].bytes = bytes,
                                    ![p].zipHash = computeZipHash(bytes),
                                    ![p].reqs = @ \cup sent]
              /\ tmp' = tmp \cup {p}
              /\ pc' = [pc EXCEPT ![p] = "remove"]
         ELSE /\ loc' = [loc EXCEPT
                           ![p].res = IF outcome = "200, not hashed"
                                      THEN FetchError(loc[p].ref, "computing zip hash", "read")
                                      ELSE FetchError(loc[p].ref, "downloading module", outcome),
                           ![p].reqs = @ \cup sent]
              /\ tmp' = tmp
              /\ pc' = [pc EXCEPT ![p] = "failed"]
    /\ UNCHANGED <<fetcher, env, cache, last, ncalls, nfault, inp, out>>

\* the names of a directory that have nothing below them
Leaves(files) == {n \in files : \A m \in files : ~HasPrefix(m, n \o <<"/">>)}

\* os.RemoveAll(targetDir), its error discarded (module.go:518).  What is
\* below targetDir goes one name at a time, a directory after what it
\* holds, then targetDir itself; a file at that path goes in one step.
\* The removal can fail at any point: what is left stays, and extract
\* goes on
RemoveAll(p) ==
    LET node == cache[Key(p)] IN
    /\ pc[p] = "remove"
    /\ \/ /\ ~node.exists
          /\ cache' = cache
          /\ pc' = [pc EXCEPT ![p] = "open"]
          /\ nfault' = nfault
       \/ /\ node.exists
          /\ node.files = {}
          /\ cache' = [cache EXCEPT ![Key(p)] = NoFile]
          /\ pc' = [pc EXCEPT ![p] = "open"]
          /\ nfault' = nfault
       \/ /\ \E n \in Leaves(node.files) :
                cache' = [cache EXCEPT ![Key(p)] = Dir(node.files \ {n})]
          /\ pc' = pc
          /\ nfault' = nfault
       \/ /\ node.exists
          /\ nfault < MaxFaults
          /\ cache' = cache
          /\ pc' = [pc EXCEPT ![p] = "open"]
          /\ nfault' = nfault + 1
    /\ UNCHANGED <<fetcher, env, loc, last, tmp, ncalls, inp, out>>

\* zip.OpenReader(zipPath) (module.go:520-524): bytes that are no zip end
\* Fetch with an error, and the deferred os.Remove deletes the temporary
\* file
OpenZip(p) ==
    /\ pc[p] = "open"
    /\ IF env.served = "corrupt"
       THEN /\ loc' = [loc EXCEPT
                         ![p].res = FetchError(loc[p].ref, "extracting module", "opening zip")]
            /\ tmp' = tmp \ {p}
            /\ pc' = [pc EXCEPT ![p] = "failed"]
       ELSE /\ loc' = [loc EXCEPT ![p].next = 1]
            /\ tmp' = tmp
            /\ pc' = [pc EXCEPT ![p] = "entry"]
    /\ UNCHANGED <<fetcher, env, cache, last, ncalls, nfault, inp, out>>

\* the cache root once os.MkdirAll has made the directory the key's files
\* are in
WithParent(c, k) == [c EXCEPT ![ParentDir(k)] = Dir(c[ParentDir(k)].files)]

\* the cache root once os.MkdirAll has made cachedDir of the key and the
\* directories dirs below it, and the directory cachedDir is in
MkdirAll(c, k, dirs) ==
    [q \in DOMAIN c |->
        IF q = k THEN Dir(c[q].files \cup dirs)
        ELSE IF q = ParentDir(k) THEN Dir(c[q].files)
        ELSE c[q]]

\* the first half of an iteration of extract's loop (module.go:528-553).
\* The entry is skipped when its stripped name is empty.  For a directory
\* entry os.MkdirAll(targetPath) makes the directory, and the loop goes to
\* the next entry; for a file entry os.MkdirAll(filepath.Dir(targetPath))
\* makes the directory the file goes to.  Both make targetDir and what is
\* above it, and neither can where a file is at targetDir.  When
\* os.MkdirAll fails it has made nothing, or the directories above
\* targetDir, or targetDir too and not what is below it; extract returns
\* the error ("creating directory", "creating parent directory"), Fetch
\* wraps it and the deferred os.Remove deletes the temporary file
ExtractEntry(p) ==
    LET entries == ZipEntries(loc[p].bytes, env.served)
        i       == loc[p].next
        name    == stripName(entries[i].name, Path(p), Version(p))
        isDir   == entries[i].isDir
        k       == Key(p)
        goOn    == /\ loc' = [loc EXCEPT ![p].next = i + 1]
                   /\ pc' = [pc EXCEPT ![p] = IF i = Len(entries) THEN "whash" ELSE "entry"]
                   /\ tmp' = tmp
    IN
    /\ pc[p] = "entry"
    /\ i <= Len(entries)
    /\ IF name = <<>>
       THEN /\ goOn
            /\ cache' = cache
       ELSE \/ /\ ~IsFile(cache[k])
               /\ cache' = MkdirAll(cache, k, DirsAbove(name))
               /\ IF isDir
                  THEN goOn
                  ELSE /\ pc' = [pc EXCEPT ![p] = "file"]
                       /\ UNCHANGED <<loc, tmp>>
            \/ /\ cache' \in {cache, WithParent(cache, k)} \cup
                             (IF DirsAbove(name) # {} /\ ~IsFile(cache[k])
                              THEN {MkdirAll(cache, k, {})} ELSE {})
               /\ loc' = [loc EXCEPT
                            ![p].res = FetchError(loc[p].ref, "extracting module",
                                           IF isDir THEN "creating directory"
                                           ELSE "creating parent directory")]
               /\ tmp' = tmp \ {p}
               /\ pc' = [pc EXCEPT ![p] = "failed"]
    /\ UNCHANGED <<fetcher, env, last, ncalls, nfault, inp, out>>

\* the second half of the iteration for a file entry (module.go:555-571):
\* file.Open, then os.OpenFile, which creates the file in the directory
\* made for it and cannot where that directory is no longer there, then
\* io.Copy.  The cache holds the names of the files, not their bytes, so
\* the created file and the filled one are the same state.  A failure of
\* file.Open or os.OpenFile leaves the directory without the file, a
\* failure of io.Copy with it
ExtractFile(p) ==
    LET entries == ZipEntries(loc[p].bytes, env.served)
        i       == loc[p].next
        name    == stripName(entries[i].name, Path(p), Version(p))
        k       == Key(p)
    IN
    /\ pc[p] = "file"
    /\ \E outcome \in {"written", "opening zip entry", "creating file", "extracting file"} :
         /\ outcome \in {"written", "extracting file"} =>
                cache[k].isDir /\ DirsAbove(name) \subseteq cache[k].files
         /\ IF outcome \in {"written", "extracting file"}
            THEN cache' = [cache EXCEPT ![k] = Dir(@.files \cup {name})]
            ELSE cache' = cache
         /\ IF outcome = "written"
            THEN /\ loc' = [loc EXCEPT ![p].next = i + 1]
                 /\ tmp' = tmp
                 /\ pc' = [pc EXCEPT ![p] = IF i = Len(entries) THEN "whash" ELSE "entry"]
            ELSE /\ loc' = [loc EXCEPT
                              ![p].res = FetchError(loc[p].ref, "extracting module", outcome)]
                 /\ tmp' = tmp \ {p}
                 /\ pc' = [pc EXCEPT ![p] = "failed"]
    /\ UNCHANGED <<fetcher, env, last, ncalls, nfault, inp, out>>

\* what a failed write of os.WriteFile leaves in the file its open has
\* truncated: nothing, or a prefix of the data, here its first half
CutShort(data) == {<<>>, SubSeq(data, 1, Len(data) \div 2)}

\* what a write of os.WriteFile leaves in the file its open has truncated:
\* the data, or what a failed write leaves
Written(data, file) ==
    \/ file = File(data) /\ nfault' = nfault
    \/ /\ nfault < MaxFaults
       /\ \E short \in CutShort(data) : file = File(short)
       /\ nfault' = nfault + 1

\* the open of os.WriteFile can create or truncate the file at the path:
\* the directory the path is in is there, and no directory is at the path
CanOpen(c, path) == c[ParentDir(path)].isDir /\ ~c[path].isDir

\* os.WriteFile(hashFile, zipHash) (module.go:165), its open: the file is
\* created or truncated, or the open fails and the error is at most logged
OpenHash(p) ==
    /\ pc[p] = "whash"
    /\ \/ /\ CanOpen(cache, hashFile(Key(p)))
          /\ cache' = [cache EXCEPT ![hashFile(Key(p))] = File(<<>>)]
          /\ pc' = [pc EXCEPT ![p] = "whash2"]
       \/ /\ cache' = cache
          /\ pc' = [pc EXCEPT ![p] = "wurl"]
    /\ UNCHANGED <<fetcher, env, loc, last, tmp, ncalls, nfault, inp, out>>

\* the hash sidecar write with its error returned: a failed write ends
\* Fetch with an error
WriteHashFatal(p) ==
    /\ pc[p] = "whash2"
    /\ \/ /\ cache' = [cache EXCEPT ![hashFile(Key(p))] = File(loc[p].zipHash)]
          /\ pc' = [pc EXCEPT ![p] = "wurl"]
          /\ UNCHANGED <<loc, tmp, nfault>>
       \/ /\ nfault < MaxFaults
          /\ nfault' = nfault + 1
          /\ cache' = cache
          /\ loc' = [loc EXCEPT ![p].res = FetchError(loc[p].ref, "caching hash", "write")]
          /\ tmp' = tmp \ {p}
          /\ pc' = [pc EXCEPT ![p] = "failed"]
    /\ UNCHANGED <<fetcher, env, last, ncalls, inp, out>>

\* os.WriteFile(hashFile, zipHash) (module.go:165-167), its write: a
\* failed write is at most logged
WriteHash(p) ==
    /\ pc[p] = "whash2"
    /\ \E file \in {File(loc[p].zipHash)} \cup {File(d) : d \in CutShort(loc[p].zipHash)} :
         /\ Written(loc[p].zipHash, file)
         /\ cache' = [cache EXCEPT ![hashFile(Key(p))] = file]
    /\ pc' = [pc EXCEPT ![p] = "wurl"]
    /\ UNCHANGED <<fetcher, env, loc, last, tmp, ncalls, inp, out>>

\* os.WriteFile(urlFile, downloadURL) (module.go:169), its open
OpenURL(p) ==
    /\ pc[p] = "wurl"
    /\ \/ /\ CanOpen(cache, urlFile(Key(p)))
          /\ cache' = [cache EXCEPT ![urlFile(Key(p))] = File(<<>>)]
          /\ pc' = [pc EXCEPT ![p] = "wurl2"]
       \/ /\ cache' = cache
          /\ pc' = [pc EXCEPT ![p] = "rev"]
    /\ UNCHANGED <<fetcher, env, loc, last, tmp, ncalls, nfault, inp, out>>

\* os.WriteFile(urlFile, downloadURL) (module.go:169-171), its write
WriteURL(p) ==
    /\ pc[p] = "wurl2"
    /\ \E file \in {File(loc[p].url)} \cup {File(d) : d \in CutShort(loc[p].url)} :
         /\ Written(loc[p].url, file)
         /\ cache' = [cache EXCEPT ![urlFile(Key(p))] = file]
    /\ pc' = [pc EXCEPT ![p] = "rev"]
    /\ UNCHANGED <<fetcher, env, loc, last, tmp, ncalls, inp, out>>

\* gitRev of the caller's package (module.go:173-190)
GitRev(p) ==
    fetchGitRev(fetcher.Proxy, fetcher.Private, Path(p), Version(p),
                InfoResponse(Path(p), Version(p), env.info),
                GoListOutput(Path(p), Version(p), env.golist))

\* the revision lookup and, for a revision, the open of
\* os.WriteFile(revFile, gitRev) (module.go:173-193): the file is created
\* or truncated, or the open fails and the error is at most logged
OpenRev(p) ==
    /\ pc[p] = "rev"
    /\ \E opened \in IF GitRev(p) # <<>> /\ CanOpen(cache, revFile(Key(p)))
                      THEN BOOLEAN ELSE {FALSE} :
         /\ cache' = IF opened THEN [cache EXCEPT ![revFile(Key(p))] = File(<<>>)] ELSE cache
         /\ loc' = [loc EXCEPT
                      ![p].reqs = @ \cup (IF HasPrefix(Path(p), GitHubPrefix)
                                          THEN metadataRequests(fetcher.Proxy,
                                                   fetcher.Private, loc[p].ref)
                                          ELSE {}),
                      ![p].opened = opened]
    /\ pc' = [pc EXCEPT ![p] = "rev2"]
    /\ UNCHANGED <<fetcher, env, last, tmp, ncalls, nfault, inp, out>>

\* the write of the .rev sidecar that was opened, and the return
\* (module.go:193-205); the deferred os.Remove deletes the temporary file
WriteRevAndReturn(p) ==
    /\ pc[p] = "rev2"
    /\ IF loc[p].opened
       THEN \E file \in {File(GitRev(p))} \cup {File(d) : d \in CutShort(GitRev(p))} :
              /\ Written(GitRev(p), file)
              /\ cache' = [cache EXCEPT ![revFile(Key(p))] = file]
       ELSE UNCHANGED <<cache, nfault>>
    /\ loc' = [loc EXCEPT
                 ![p].opened = FALSE,
                 ![p].res = FetchResult(loc[p].ref, loc[p].zipHash, loc[p].url, GitRev(p))]
    /\ tmp' = tmp \ {p}
    /\ pc' = [pc EXCEPT ![p] = "done"]
    /\ UNCHANGED <<fetcher, env, last, ncalls, inp, out>>

\* the steps of Fetch after its entry
Step(p) ==
    \/ Stat(p)
    \/ ReadHash(p)
    \/ ReadURL(p)
    \/ ReadSidecars(p)
    \/ Resolve(p)
    \/ Download(p)
    \/ RemoveAll(p)
    \/ OpenZip(p)
    \/ ExtractEntry(p)
    \/ ExtractFile(p)
    \/ OpenHash(p)
    \/ WriteHash(p)
    \/ OpenURL(p)
    \/ WriteURL(p)
    \/ OpenRev(p)
    \/ WriteRevAndReturn(p)

\* callers whose Fetch calls overlap freely
Next == \E p \in Procs : (\E r \in Refs : Start(p, r)) \/ Step(p)

Spec == InitOverlap /\ [][Next]_vars

\* a single caller, whose Fetch calls follow one another
NextSeq == \E p \in Procs : (\E r \in SeqRefs : StartSeq(p, r)) \/ Step(p)

SpecSeq == InitSeq /\ [][NextSeq]_vars

\* a single caller that calls Fetch in any configuration
NextConfig == \E p \in Procs : (\E r \in ConfigRefs : StartConfig(p, r)) \/ Step(p)

SpecConfig == InitConfig /\ [][NextConfig]_vars

\* the first caller calls Fetch("", version)
StartEmptyPath(p) ==
    /\ p = 1
    /\ ncalls < MaxCalls
    /\ Call(p, EmptyPathRef)

\* a single caller that fetches the empty module path, once or again
NextEmptyPath == \E p \in Procs : StartEmptyPath(p) \/ Step(p)

SpecEmptyPath == Init /\ [][NextEmptyPath]_vars

(***************************************************************************)
(* The pure functions, applied to inputs drawn from bounded sets: inp is   *)
(* the call, out its result.                                               *)
(***************************************************************************)

\* a Fetcher that is never asked to Fetch
NoFetch ==
    /\ fetcher = [Proxy |-> <<>>, Private |-> <<>>, Netrc |-> <<>>]
    /\ env = [served |-> "good", golist |-> FALSE, info |-> "fail"]
    /\ IdleFetch

\* module paths given to getDownloadURL: github.com repositories, a
\* github.com path of two segments with an upper-case letter, a module on a
\* host of its own, a Buf Schema Registry module, and a bare host
URLPaths ==
    { PkgPath[1], PkgPath[2],
      <<"g", "i", "t", "h", "u", "b", ".", "c", "o", "m", "/", "B", "i", "g">>,
      <<"x", ".", "i", "o", "/", "M", "o", "d">>,
      <<"b", "u", "f", ".", "b", "u", "i", "l", "d", "/", "g", "e", "n", "/", "g", "o", "/", "a", "/", "b">>,
      <<"x", ".", "i", "o">> }

URLVersions == { PkgVersion[1], PkgVersion[2] }

\* values of Fetcher.Private given to getDownloadURL
URLPrivateLists ==
    PrivateLists \cup
        { <<"x", ".", "i", "o", ",", "b", "u", "f", ".", "b", "u", "i", "l", "d">> }

InitGetDownloadURL ==
    /\ NoFetch
    /\ inp \in [fn : {"getDownloadURL"}, proxy : Proxies, private : URLPrivateLists,
                 modulePath : URLPaths, version : URLVersions,
                 info : InfoKinds, golist : BOOLEAN]
    /\ out = NoOutput

\* out := f.getDownloadURL(modulePath, version)
ApplyGetDownloadURL ==
    /\ inp.fn = "getDownloadURL"
    /\ ~out.set
    /\ out' = Output(getDownloadURL(inp.proxy, inp.private, inp.modulePath, inp.version,
                         InfoResponse(inp.modulePath, inp.version, inp.info),
                         GoListOutput(inp.modulePath, inp.version, inp.golist)))
    /\ UNCHANGED <<fetcher, env, cache, pc, loc, last, tmp, ncalls, nfault, inp>>

SpecGetDownloadURL == InitGetDownloadURL /\ [][ApplyGetDownloadURL]_vars

\* longest pattern list and longest module path given to isPrivate
MaxListLen == 4

MaxPathLen == 3

\* the characters of the pattern lists and of the module paths
ListChars == {"h", "/", "*", ",", " "}

PathChars == {"h", "/", "*"}

\* the sequences over a set of characters, up to a length
SeqsUpTo(chars, n) == UNION {[1..k -> chars] : k \in 0..n}

InitIsPrivate ==
    /\ NoFetch
    /\ inp \in [fn : {"isPrivate"}, private : SeqsUpTo(ListChars, MaxListLen),
                 modulePath : SeqsUpTo(PathChars, MaxPathLen)]
    /\ out = NoOutput

\* out := f.isPrivate(modulePath)
ApplyIsPrivate ==
    /\ inp.fn = "isPrivate"
    /\ ~out.set
    /\ out' = Output(isPrivate(inp.private, inp.modulePath))
    /\ UNCHANGED <<fetcher, env, cache, pc, loc, last, tmp, ncalls, nfault, inp>>

SpecIsPrivate == InitIsPrivate /\ [][ApplyIsPrivate]_vars

(***************************************************************************)
(* Properties of Fetch.                                                    *)
(***************************************************************************)

Returns(p) == pc[p] \in {"done", "failed"}

\* the key holds a cache entry: the extracted directory and its hash sidecar
EntryExists(k) == cache[k].isDir /\ IsFile(cache[hashFile(k)])

\* the sidecars of a key
Sidecars(k) == {hashFile(k), urlFile(k), revFile(k)}

\* the caller's previous call fetched the same package, missed the cache
\* and succeeded
RepeatsPopulatingFetch(p) ==
    /\ Returns(p)
    /\ ~last[p].nil
    /\ last[p].ref = loc[p].ref
    /\ last[p].ok
    /\ ~last[p].hit

SameHashNoRequest(p) ==
    /\ loc[p].res.ok
    /\ loc[p].res.Hash = last[p].Hash
    /\ loc[p].reqs = {}

\* C1 as stated: after a Fetch that misses the cache and succeeds, a second
\* Fetch of the same (path, version) returns the same archive hash and
\* issues no network request.
C1_CacheRoundTrip ==
    \A p \in Procs : RepeatsPopulatingFetch(p) => SameHashNoRequest(p)

\* what extract leaves below targetDir for a package once it has run to
\* its end
FullTree(r) == ExtractedNames([ref |-> r, viaProxy |-> TRUE], env.served)

\* C2 as stated: two Fetch calls on the same (path, version) that overlap
\* both return the same archive hash, and the extracted directory a caller
\* was handed is never half-populated.
C2_OverlappingCallsAgree ==
    \A p, q \in Procs :
        (pc[p] = "done" /\ pc[q] = "done" /\ loc[p].ref = loc[q].ref) =>
            /\ loc[p].res.Hash = loc[q].res.Hash
            /\ cache[Key(p)].files = FullTree(loc[p].ref)

\* the archive hashes a population of the package writes to its sidecar
WrittenHashes(r) == {computeZipHash([ref |-> r, viaProxy |-> v]) : v \in BOOLEAN}

\* C3 as stated: Fetch takes the cache-hit path for a key only when the
\* key's directory is completely extracted, nobody is extracting into it,
\* and the hash it read from the sidecar is one that has been written.
C3_HitOnlyOnCompleteEntry ==
    [][\A p \in Procs :
          (pc[p] = "rrev" /\ pc'[p] = "done") =>
              /\ cache[Key(p)].files = FullTree(loc[p].ref)
              /\ \A q \in Procs : ~(pc[q] \in {"entry", "file"} /\ Key(q) = Key(p))
              /\ loc'[p].res.Hash \in WrittenHashes(loc[p].ref)]_vars

\* C4 as stated: at most one Fetch at a time populates a key's cache
\* directory.
C4_AtMostOnePopulator ==
    \A p, q \in Procs :
        (p # q /\ Key(p) = Key(q)) =>
            ~(pc[p] \in {"entry", "file", "whash", "whash2", "wurl", "wurl2", "rev", "rev2"}
              /\ pc[q] \in {"entry", "file", "whash", "whash2", "wurl", "wurl2", "rev", "rev2"})

\* the candidate sources of the design for a package: the proxy first when
\* one is configured and the package is not private, then the direct source
Candidates(r) ==
    (IF fetcher.Proxy # <<>> /\ ~isPrivate(fetcher.Private, PkgPath[r])
     THEN {proxyURL(fetcher.Proxy, PkgPath[r], PkgVersion[r])}
     ELSE {})
    \cup {directURL(fetcher.Proxy, fetcher.Private, PkgPath[r], PkgVersion[r],
                    InfoResponse(PkgPath[r], PkgVersion[r], env.info),
                    GoListOutput(PkgPath[r], PkgVersion[r], env.golist))}

\* C5 as stated: Fetch returns a download error only after every candidate
\* source has been attempted.
C5_ErrorOnlyAfterEveryCandidate ==
    \A p \in Procs :
        (pc[p] = "failed" /\ loc[p].res.err[1] = "downloading module") =>
            \A c \in Candidates(loc[p].ref) :
                \E req \in loc[p].reqs : req.kind = "zip" /\ req.url = c

\* C6 as stated: in a sequence of calls that do not overlap, once a key
\* holds a cache entry no later step changes its directory, its hash, url
\* and rev sidecars change only while the call that created the entry is
\* still writing them (the hash sidecar only between its open and its
\* write), and a call that is not past the cache check writes nothing.
C6_EntryNeverRewritten ==
    [][/\ \A k \in Keys :
            EntryExists(k) =>
                /\ cache'[k] = cache[k]
                /\ (\A p \in Procs : ~(Key(p) = k /\ pc[p] = "whash2"))
                       => cache'[hashFile(k)] = cache[hashFile(k)]
                /\ (\A p \in Procs :
                        ~(Key(p) = k /\ pc[p] \in {"whash2", "wurl", "wurl2", "rev", "rev2"}))
                       => \A f \in Sidecars(k) : cache'[f] = cache[f]
       /\ (\A p \in Procs : pc[p] \in {"idle", "done", "failed", "stat", "read", "rurl", "rrev"})
              => cache' = cache]_vars

\* the credential store has an entry for the host: a machine entry of that
\* name, or a default entry
HasCredentials(netrc, host) ==
    \E i \in DOMAIN netrc : netrc[i].Default \/ netrc[i].Name = host

\* C8: an archive request carries credentials exactly when the module is
\* private and the credential store has an entry for its host; a metadata
\* request never carries any; and a call that is past its download has
\* sent the archive request, with or without credentials.
C8_CredentialsOnlyForPrivate ==
    \A p \in Procs :
        /\ \A req \in loc[p].reqs :
              /\ req.kind = "zip" =>
                    (~req.auth.nil <=>
                        /\ isPrivate(fetcher.Private, PkgPath[req.ref])
                        /\ HasCredentials(fetcher.Netrc, extractHost(PkgPath[req.ref])))
              /\ req.kind = "info" => req.auth.nil
        /\ pc[p] \in {"remove", "open", "entry", "file", "whash", "whash2", "wurl", "wurl2",
                      "rev", "rev2"} =>
              \E req \in loc[p].reqs : req.kind = "zip" /\ req.ref = loc[p].ref

\* a private module has been requested with credentials
C8_Witness ==
    \E p \in Procs : \E req \in loc[p].reqs :
        /\ req.kind = "zip"
        /\ ~req.auth.nil
        /\ isPrivate(fetcher.Private, PkgPath[req.ref])

\* the revision of the caller's package that `go list`, or failing that
\* the version string, gives: that of a github.com module, none otherwise
GoListRev(p) ==
    LET info == getModuleInfoFromGoList(Path(p), Version(p),
                    GoListOutput(Path(p), Version(p), env.golist))
    IN
    IF HasPrefix(Path(p), GitHubPrefix) /\ ~info.nil /\ ~info.Origin.nil
    THEN info.Origin.Hash
    ELSE <<>>

C13_SidecarFailureIsNotAnError ==
    \A p \in Procs :
        /\ (pc[p] = "done" /\ ~loc[p].hit) =>
              /\ loc[p].res.ok
              /\ loc[p].res.Hash = computeZipHash(loc[p].bytes)
              /\ loc[p].res.URL =
                    getDownloadURL(fetcher.Proxy, fetcher.Private, Path(p), Version(p),
                                   InfoResponse(Path(p), Version(p), env.info),
                                   GoListOutput(Path(p), Version(p), env.golist))
              /\ loc[p].res.Rev =
                    fetchGitRev(fetcher.Proxy, fetcher.Private, Path(p), Version(p),
                                InfoResponse(Path(p), Version(p), env.info),
                                GoListOutput(Path(p), Version(p), env.golist))
        /\ pc[p] \in {"whash2", "wurl", "wurl2", "rev", "rev2"} => loc[p].res = NoResult
        /\ pc[p] = "failed" =>
              loc[p].res.err[1] \in {"downloading module", "computing zip hash",
                                     "extracting module"}

\* a Fetch has extracted a whole archive and returned success although
\* none of the sidecars it was to write exists
C13_Witness ==
    \E p \in Procs :
        /\ pc[p] = "done"
        /\ ~loc[p].hit
        /\ loc[p].res.ok
        /\ loc[p].res.Rev # <<>>
        /\ cache[Key(p)].isDir
        /\ cache[Key(p)].files # {}
        /\ \A f \in Sidecars(Key(p)) : ~cache[f].exists

\* C15 as stated: for the empty module path, resolution yields a 'no
\* viable source' error: Fetch issues no network request, gets no further
\* than the resolution, and the error it returns is that one.
C15_EmptyPathHasNoSource ==
    \A p \in Procs :
        (pc[p] # "idle" /\ Path(p) = <<>>) =>
            /\ loc[p].reqs = {}
            /\ pc[p] \in {"stat", "read", "rurl", "rrev", "resolve", "failed"}
            /\ pc[p] = "failed" => loc[p].res.err[1] = "no viable source"

\* the call of p ends in this step with an extraction error
ExtractionFails(p) ==
    /\ pc[p] \in {"open", "entry", "file"}
    /\ pc'[p] = "failed"
    /\ loc'[p].res.err[1] = "extracting module"

\* C23 as stated: when extraction of the downloaded archive fails, Fetch
\* returns an error, the temporary download is deleted, the failing step
\* writes no hash, URL or revision sidecar, and if the key is a cache hit
\* afterwards that is not of the failed attempt's making: its directory
\* holds a complete extraction.
C23_FailedExtractionLeavesNoEntry ==
    [][\A p \in Procs :
          ExtractionFails(p) =>
              /\ ~loc'[p].res.ok
              /\ p \notin tmp'
              /\ \A f \in Sidecars(Key(p)) : cache'[f] = cache[f]
              /\ (cache'[Key(p)].isDir /\ IsFile(cache'[hashFile(Key(p))]))
                    => cache'[Key(p)].files = FullTree(loc[p].ref)]_vars

\* the caller's call hit the cache right after its previous call populated
\* the same key
HitAfterPopulating(p) == RepeatsPopulatingFetch(p) /\ loc[p].hit

SameURLAndRev(p) ==
    /\ loc[p].res.URL = last[p].URL
    /\ loc[p].res.Rev = last[p].Rev

\* the .url and .rev sidecars of the caller's key hold the URL and the
\* revision of its result, and there is no .rev sidecar for no revision
SidecarsEncodeResult(p) ==
    /\ cache[urlFile(Key(p))] = File(loc[p].res.URL)
    /\ IF loc[p].res.Rev = <<>> THEN ~cache[revFile(Key(p))].exists
       ELSE cache[revFile(Key(p))] = File(loc[p].res.Rev)

\* C28 as stated: a Fetch that hits the cache returns the URL and the
\* revision that the populating Fetch returned, and when a populating Fetch
\* has returned the .url and .rev sidecars hold exactly the values it
\* returned, with no .rev sidecar for an empty revision.
C28_HitReturnsPopulatedValues ==
    \A p \in Procs :
        /\ HitAfterPopulating(p) => SameURLAndRev(p)
        /\ (pc[p] = "done" /\ ~loc[p].hit) => SidecarsEncodeResult(p)

(***************************************************************************)
(* Properties of getDownloadURL and isPrivate.                             *)
(***************************************************************************)

\* s begins with p
StartsWith(s, p) == Len(p) <= Len(s) /\ \A i \in 1..Len(p) : s[i] = p[i]

\* s ends with e
EndsWith(s, e) ==
    Len(e) <= Len(s) /\ \A i \in 1..Len(e) : s[Len(s) - Len(e) + i] = e[i]

\* s without its last n characters
DropLast(s, n) == [i \in 1..(Len(s) - n) |-> s[i]]

\* the fields of a comma-separated list: its maximal comma-free stretches
Fields(list) ==
    LET cuts == {0, Len(list) + 1} \cup {i \in 1..Len(list) : list[i] = ","} IN
    { [i \in 1..(b - a - 1) |-> list[a + i]] :
        <<a, b>> \in {c \in cuts \X cuts :
                        c[1] < c[2] /\ \A i \in (c[1] + 1)..(c[2] - 1) : list[i] # ","} }

\* a field without the white space around it
Trimmed(f) ==
    LET solid == {i \in 1..Len(f) : f[i] # " "} IN
    IF solid = {} THEN <<>>
    ELSE LET lo == CHOOSE i \in solid : \A j \in solid : i <= j
             hi == CHOOSE i \in solid : \A j \in solid : j <= i
         IN [i \in 1..(hi - lo + 1) |-> f[lo + i - 1]]

\* the matching rule of the design: 'P/*' matches P and what starts with
\* 'P/', 'P*' matches what starts with P, any other pattern what starts
\* with it
RuleMatches(pattern, path) ==
    \/ /\ EndsWith(pattern, <<"/", "*">>)
       /\ \/ path = DropLast(pattern, 2)
          \/ StartsWith(path, DropLast(pattern, 1))
    \/ /\ EndsWith(pattern, <<"*">>)
       /\ StartsWith(path, DropLast(pattern, 1))
    \/ /\ ~EndsWith(pattern, <<"*">>)
       /\ StartsWith(path, pattern)

\* the URL of the module on the proxy
\* {proxy}/{escapePath(path)}/@v/{escaped version}.zip
ProxyForm ==
    inp.proxy \o <<"/">> \o escapePath(inp.modulePath) \o AtV
        \o escapeVersion(inp.version) \o DotZip

\* a proxy is configured and the module is not private
ViaProxy == inp.proxy # <<>> /\ ~isPrivate(inp.private, inp.modulePath)

\* the URL begins with https://<host of the module path>/
OnOwnHost(url) == StartsWith(url, Https \o extractHost(inp.modulePath) \o <<"/">>)

C10_MatchesSomeField ==
    (out.set /\ inp.fn = "isPrivate") =>
        (out.val <=>
            /\ inp.private # <<>>
            /\ \E f \in Fields(inp.private) : RuleMatches(f, inp.modulePath))

\* C10, amended: isPrivate is true exactly when some field of the
\* comma-separated list, with the white space around it removed and not
\* empty after that, matches the path by the rule; a list of one such
\* pattern matches the path equal to the pattern; an empty list matches
\* nothing.
C10_MatchesSomeTrimmedField ==
    (out.set /\ inp.fn = "isPrivate") =>
        /\ out.val <=>
              \E f \in Fields(inp.private) :
                  Trimmed(f) # <<>> /\ RuleMatches(Trimmed(f), inp.modulePath)
        /\ (inp.modulePath # <<>> /\ Fields(inp.private) = {inp.modulePath}) => out.val
        /\ inp.private = <<>> => ~out.val

\* the pattern 'h/*', written with white space before it, decided to
\* match the path 'h'
C10_Witness ==
    /\ out.set
    /\ inp.fn = "isPrivate"
    /\ out.val
    /\ inp.private = <<" ", "h", "/", "*">>
    /\ inp.modulePath = <<"h">>

(***************************************************************************)
(* Routing under the GOPRIVATE patterns the documentation lists            *)
(* (docs/usage/private-repos.md).                                          *)
(***************************************************************************)

\* "*.internal.company.com" (private-repos.md:56)
SubdomainPattern == <<"*", ".", "i", "n", "t", "e", "r", "n", "a", "l", ".", "c", "o", "m", "p", "a", "n", "y", ".", "c", "o", "m">>

\* the documented patterns (private-repos.md:48, 54-56), alone and listed
\* together
DocPatterns ==
    { SubdomainPattern,
      <<"g", "i", "t", "h", "u", "b", ".", "c", "o", "m", "/", "m", "y", "o", "r", "g", "/", "*">>,
      <<"g", "i", "t", "h", "u", "b", ".", "c", "o", "m", "/", "m", "y", "o", "r", "g", "/", "m", "y", "r", "e", "p", "o">>,
      <<"g", "i", "t", "h", "u", "b", ".", "c", "o", "m", "/", "m", "y", "o", "r", "g", "/", "*", ",", "*", ".", "i", "n", "t", "e", "r", "n", "a", "l", ".", "c", "o", "m", "p", "a", "n", "y", ".", "c", "o", "m">> }

\* modules on subdomains of internal.company.com, on the domain itself, and
\* on github.com inside and outside the organisation
RoutePaths ==
    { <<"g", "i", "t", ".", "i", "n", "t", "e", "r", "n", "a", "l", ".", "c", "o", "m", "p", "a", "n", "y", ".", "c", "o", "m", "/", "t", "/", "m">>,
      <<"a", ".", "b", ".", "i", "n", "t", "e", "r", "n", "a", "l", ".", "c", "o", "m", "p", "a", "n", "y", ".", "c", "o", "m", "/", "x">>,
      <<"i", "n", "t", "e", "r", "n", "a", "l", ".", "c", "o", "m", "p", "a", "n", "y", ".", "c", "o", "m", "/", "x">>,
      <<"g", "i", "t", "h", "u", "b", ".", "c", "o", "m", "/", "m", "y", "o", "r", "g", "/", "m", "y", "r", "e", "p", "o">>,
      <<"g", "i", "t", "h", "u", "b", ".", "c", "o", "m", "/", "m", "y", "o", "r", "g", "/", "o", "t", "h", "e", "r">>,
      <<"g", "i", "t", "h", "u", "b", ".", "c", "o", "m", "/", "e", "l", "s", "e", "/", "r">>,
      <<"c", "o", "m", "p", "a", "n", "y", ".", "c", "o", "m", "/", "x">> }

InitRoute ==
    /\ NoFetch
    /\ inp \in [fn : {"route"}, proxy : Proxies, private : DocPatterns,
                 modulePath : RoutePaths, version : URLVersions]
    /\ out = NoOutput

\* the privacy decision and the URL Fetch downloads from, for a Fetcher
\* with the given Proxy and Private
ApplyRoute ==
    /\ inp.fn = "route"
    /\ ~out.set
    /\ out' = Output([private |-> isPrivate(inp.private, inp.modulePath),
                      url |-> getDownloadURL(inp.proxy, inp.private, inp.modulePath,
                                  inp.version,
                                  InfoResponse(inp.modulePath, inp.version, "origin"),
                                  GoListOutput(inp.modulePath, inp.version, TRUE))])
    /\ UNCHANGED <<fetcher, env, cache, pc, loc, last, tmp, ncalls, nfault, inp>>

SpecRoute == InitRoute /\ [][ApplyRoute]_vars

\* the host of the module is a subdomain of internal.company.com
OnSubdomain(modulePath) ==
    LET host == extractHost(modulePath) IN
    /\ EndsWith(host, <<".", "i", "n", "t", "e", "r", "n", "a", "l", ".", "c", "o", "m", "p", "a", "n", "y", ".", "c", "o", "m">>)
    /\ Len(host) > Len(<<".", "i", "n", "t", "e", "r", "n", "a", "l", ".", "c", "o", "m", "p", "a", "n", "y", ".", "c", "o", "m">>)

\* C11 as stated: with the private pattern '*.internal.company.com', every
\* module whose host is a subdomain of internal.company.com is private and
\* is fetched directly, not from the proxy.
C11_SubdomainsArePrivate ==
    (out.set /\ inp.fn = "route" /\ inp.private = SubdomainPattern
        /\ OnSubdomain(inp.modulePath)) =>
        /\ out.val.private
        /\ inp.proxy # <<>> => ~StartsWith(out.val.url, inp.proxy \o <<"/">>)

(***************************************************************************)
(* The credential file: ParseNetrcFile, tokenize and Netrc.FindEntry.      *)
(* A file is the sequence of its lines, as bufio.Scanner delivers them.    *)
(***************************************************************************)

\* a NetrcEntry
NetrcEntry(machine, login, password) ==
    [nil |-> FALSE, Machine |-> machine, Login |-> login, Password |-> password]

\* the loop of tokenize: i is the next character, current the
\* strings.Builder, inQuote the quote state
RECURSIVE tokenizeFrom(_, _, _, _, _)
tokenizeFrom(line, i, current, inQuote, tokens) ==
    IF i > Len(line)
    THEN IF Len(current) > 0 THEN Append(tokens, current) ELSE tokens
    ELSE IF line[i] = "\""
    THEN tokenizeFrom(line, i + 1, current, ~inQuote, tokens)
    ELSE IF line[i] = " " \/ line[i] = "\t"
    THEN IF inQuote
         THEN tokenizeFrom(line, i + 1, Append(current, line[i]), inQuote, tokens)
         ELSE IF Len(current) > 0
         THEN tokenizeFrom(line, i + 1, <<>>, inQuote, Append(tokens, current))
         ELSE tokenizeFrom(line, i + 1, current, inQuote, tokens)
    ELSE tokenizeFrom(line, i + 1, Append(current, line[i]), inQuote, tokens)

\* tokenize
tokenize(line) == tokenizeFrom(line, 1, <<>>, FALSE, <<>>)

\* netrc.Entries = append(netrc.Entries, *current) when current != nil
Flush(st) ==
    IF st.current.nil THEN st.entries ELSE Append(st.entries, st.current)

\* the loop of ParseNetrcFile over the tokens of one line; st holds
\* netrc.Entries, current, and whether the function has returned
RECURSIVE parseTokens(_, _, _)
parseTokens(tokens, i, st) ==
    IF i > Len(tokens) THEN st
    ELSE
    LET hasNext == i + 1 <= Len(tokens) IN
    IF tokens[i] = <<"m", "a", "c", "h", "i", "n", "e">>
    THEN parseTokens(tokens, IF hasNext THEN i + 2 ELSE i + 1,
             [st EXCEPT !.entries = Flush(st),
                        !.current = NetrcEntry(IF hasNext THEN tokens[i + 1] ELSE <<>>,
                                               <<>>, <<>>)])
    ELSE IF tokens[i] = <<"d", "e", "f", "a", "u", "l", "t">>
    THEN parseTokens(tokens, i + 1,
             [st EXCEPT !.entries = Flush(st), !.current = NetrcEntry(<<>>, <<>>, <<>>)])
    ELSE IF tokens[i] = <<"l", "o", "g", "i", "n">>
    THEN IF ~st.current.nil /\ hasNext
         THEN parseTokens(tokens, i + 2, [st EXCEPT !.current.Login = tokens[i + 1]])
         ELSE parseTokens(tokens, i + 1, st)
    ELSE IF tokens[i] = <<"p", "a", "s", "s", "w", "o", "r", "d">>
    THEN IF ~st.current.nil /\ hasNext
         THEN parseTokens(tokens, i + 2, [st EXCEPT !.current.Password = tokens[i + 1]])
         ELSE parseTokens(tokens, i + 1, st)
    ELSE IF tokens[i] = <<"a", "c", "c", "o", "u", "n", "t">>
    THEN parseTokens(tokens, IF hasNext THEN i + 2 ELSE i + 1, st)
    ELSE IF tokens[i] = <<"m", "a", "c", "d", "e", "f">>
    THEN [st EXCEPT !.returned = TRUE]
    ELSE parseTokens(tokens, i + 1, st)

\* the loop of ParseNetrcFile over the lines
RECURSIVE parseLines(_, _)
parseLines(lines, st) ==
    IF st.returned THEN st.entries
    ELSE IF lines = <<>> THEN Flush(st)
    ELSE LET line == TrimSpace(Head(lines)) IN
         IF line = <<>> \/ HasPrefix(line, <<"#">>)
         THEN parseLines(Tail(lines), st)
         ELSE parseLines(Tail(lines), parseTokens(tokenize(line), 1, st))

\* ParseNetrcFile on a file that exists and is read without error: the
\* Entries of the Netrc it returns
ParseNetrcFile(lines) ==
    parseLines(lines, [entries |-> <<>>, current |-> Nil, returned |-> FALSE])

\* FindEntry with the two loops merged into one: the first entry that is
\* either named machine or a default entry
FindEntryFirstOfEither(entries, machine) ==
    LET hits == {i \in DOMAIN entries :
                    entries[i].Machine = machine \/ entries[i].Machine = <<>>}
    IN IF hits = {} THEN Nil
       ELSE entries[CHOOSE i \in hits : \A j \in hits : i <= j]

\* Netrc.FindEntry
FindEntry(entries, machine) ==
    LET exact == {i \in DOMAIN entries : entries[i].Machine = machine}
        defs  == {i \in DOMAIN entries : entries[i].Machine = <<>>}
    IN IF exact # {} THEN entries[CHOOSE i \in exact : \A j \in exact : i <= j]
       ELSE IF defs # {} THEN entries[CHOOSE i \in defs : \A j \in defs : i <= j]
       ELSE Nil

\* longest credential file, in words
MaxTokens == 4

\* the words credential files are made of: keywords, host names and a login
NetrcWords ==
    { <<"m", "a", "c", "h", "i", "n", "e">>, <<"d", "e", "f", "a", "u", "l", "t">>, <<"l", "o", "g", "i", "n">>, <<"p", "a", "s", "s", "w", "o", "r", "d">>, <<"m", "a", "c", "d", "e", "f">>, <<"h">>, <<"g">> }

\* the hosts looked up
NetrcHosts == { <<"h">>, <<"g">> }

\* how the words are laid out in the file: on one line; one word a line,
\* indented by a tab; or quoted on one line below a comment line
Layouts == {"oneline", "lines", "quoted"}

RECURSIVE Join(_, _)
Join(words, sep) ==
    IF words = <<>> THEN <<>>
    ELSE IF Len(words) = 1 THEN words[1]
    ELSE words[1] \o sep \o Join(Tail(words), sep)

\* the lines of the file that holds the words in the layout
FileLines(words, layout) ==
    IF layout = "oneline" THEN << Join(words, <<" ">>) >>
    ELSE IF layout = "lines" THEN [i \in DOMAIN words |-> <<"\t">> \o words[i]]
    ELSE << <<"#", " ", "c", "r", "e", "d", "e", "n", "t", "i", "a", "l", "s">>,
            Join([i \in DOMAIN words |-> <<"\"">> \o words[i] \o <<"\"">>], <<" ", " ">>) >>

InitFindEntry ==
    /\ NoFetch
    /\ inp \in [fn : {"FindEntry"}, words : SeqsUpTo(NetrcWords, MaxTokens),
                 layout : Layouts, machine : NetrcHosts]
    /\ out = NoOutput

\* n, _ := ParseNetrcFile(path); out := n.FindEntry(machine)
ApplyFindEntry ==
    /\ inp.fn = "FindEntry"
    /\ ~out.set
    /\ LET entries == ParseNetrcFile(FileLines(inp.words, inp.layout)) IN
       out' = Output([entries |-> entries, entry |-> FindEntry(entries, inp.machine)])
    /\ UNCHANGED <<fetcher, env, cache, pc, loc, last, tmp, ncalls, nfault, inp>>

SpecFindEntry == InitFindEntry /\ [][ApplyFindEntry]_vars

\* C12: the lookup returns an entry whose machine equals the host whenever
\* the parsed file has one, wherever its default entries stand; otherwise a
\* default entry if there is one; otherwise no entry.  A file with only a
\* default entry returns that entry for every host.
C12_ExactThenDefault ==
    (out.set /\ inp.fn = "FindEntry") =>
        LET es    == out.val.entries
            e     == out.val.entry
            named == {i \in DOMAIN es : es[i].Machine = inp.machine}
            defs  == {i \in DOMAIN es : es[i].Machine = <<>>}
        IN
        /\ named # {} => e \in {es[i] : i \in named}
        /\ (named = {} /\ defs # {}) => e \in {es[i] : i \in defs}
        /\ (named = {} /\ defs = {}) => e = Nil
        /\ (Len(es) = 1 /\ defs = {1}) => e = es[1]
        /\ (/\ inp.words # <<>>
            /\ inp.words[1] = <<"d", "e", "f", "a", "u", "l", "t">>
            /\ \A i \in 2..Len(inp.words) :
                  inp.words[i] \notin {<<"m", "a", "c", "h", "i", "n", "e">>, <<"d", "e", "f", "a", "u", "l", "t">>, <<"m", "a", "c", "d", "e", "f">>})
              => (~e.nil /\ e.Machine = <<>>)

\* a file whose default entry stands before the entry of the host looked
\* up: the lookup returned the host's entry
C12_Witness ==
    /\ out.set
    /\ inp.fn = "FindEntry"
    /\ Len(out.val.entries) = 2
    /\ out.val.entries[1].Machine = <<>>
    /\ out.val.entries[2].Machine = inp.machine
    /\ out.val.entry = out.val.entries[2]

(***************************************************************************)
(* The Nix fetcher (nix/fetch-module.nix, nix/lib.nix): how a lockfile     *)
(* entry written from a FetchResult is turned into a source.               *)
(***************************************************************************)

\* a Nix value that is null or a string
NixNull == [null |-> TRUE]

NixStr(s) == [null |-> FALSE, v |-> s]

\* a lockfile field with omitempty, as fetchGoModule receives it
\* (build-nopher-go-app.nix:75-78): absent, hence null, when empty
Omitempty(s) == IF s = <<>> THEN NixNull ELSE NixStr(s)

\* escapeModulePath (lib.nix)
RECURSIVE escapeModulePath(_)
escapeModulePath(path) ==
    IF path = <<>> THEN <<>>
    ELSE (IF IsUpper(Head(path)) THEN <<"!", ToLower(Head(path))>> ELSE <<Head(path)>>)
            \o escapeModulePath(Tail(path))

\* hasFullRev (fetch-module.nix:40)
hasFullRev(rev) == ~rev.null /\ Len(rev.v) = 40

\* isGitHubArchiveURL (fetch-module.nix:41)
isGitHubArchiveURL(url, rev) ==
    /\ ~url.null
    /\ hasFullRev(rev)
    /\ HasPrefix(url.v, GitHubURL)
    /\ Contains(url.v, Archive)

\* the elements of a list from the n-th on (lib.drop)
Drop(parts, n) == SubSeq(parts, n + 1, Len(parts))

\* parseGitHubURL (fetch-module.nix:47-69)
parseGitHubURL(url) ==
    LET withoutPrefix == IF HasPrefix(url, GitHubURL) THEN CutPrefix(url, GitHubURL) ELSE url
        parts       == Split(withoutPrefix, "/")
        archivePart == Join(Drop(parts, 3), <<"/">>)
        withoutZip  == IF HasSuffix(archivePart, DotZip)
                       THEN CutSuffix(archivePart, DotZip) ELSE archivePart
        isTag       == HasPrefix(withoutZip, RefsTags)
    IN [owner |-> parts[1], repo |-> parts[2],
        ref |-> IF isTag THEN NixStr(withoutZip) ELSE NixNull,
        rev |-> IF isTag THEN NixNull ELSE NixStr(withoutZip),
        repoUrl |-> GitHubURL \o parts[1] \o <<"/">> \o parts[2]]

\* githubSrc (fetch-module.nix:72-94): the arguments of builtins.fetchGit,
\* or null
githubSrc(url, rev) ==
    IF isGitHubArchiveURL(url, rev)
    THEN LET parsed == parseGitHubURL(url.v)
             useRev == Len(rev.v) = 40
         IN [null |-> FALSE, fetcher |-> "fetchGit", url |-> parsed.repoUrl,
             ref |-> parsed.ref, rev |-> IF useRev THEN rev ELSE NixNull]
    ELSE NixNull

\* "https://proxy.golang.org" (fetch-module.nix:31)
NixProxy == <<"h", "t", "t", "p", "s", ":", "/", "/", "p", "r", "o", "x", "y", ".", "g", "o", "l", "a", "n", "g", ".", "o", "r", "g">>

\* downloadURL (fetch-module.nix:104-113)
nixDownloadURL(modulePath, version, url) ==
    IF ~url.null THEN url.v
    ELSE IF Contains(modulePath, BSRInfix)
    THEN Https \o Head(Split(modulePath, "/")) \o BSRInfix \o escapeModulePath(modulePath)
            \o AtV \o version \o DotZip
    ELSE NixProxy \o <<"/">> \o escapeModulePath(modulePath) \o AtV \o version \o DotZip

\* the src of the derivation fetchGoModule builds (fetch-module.nix:119-189):
\* a checkout by builtins.fetchGit, or the archive fetched from downloadURL
fetchGoModule(modulePath, version, url, rev) ==
    IF ~githubSrc(url, rev).null THEN githubSrc(url, rev)
    ELSE [null |-> FALSE, fetcher |-> "fetchurl",
          url |-> nixDownloadURL(modulePath, version, url), ref |-> NixNull, rev |-> NixNull]

\* the modules whose lockfile entries are built
SourcePaths == { PkgPath[1], PkgPath[2], <<"g", "i", "t", "h", "u", "b", ".", "c", "o", "m", "/", "o", "/", "p", "/", "s", "u", "b">>, <<"x", ".", "i", "o", "/", "M", "o", "d">> }

InitSource ==
    /\ NoFetch
    /\ inp \in [fn : {"source"}, proxy : Proxies, private : PrivateLists,
                 modulePath : SourcePaths, version : URLVersions,
                 info : InfoKinds, golist : BOOLEAN]
    /\ out = NoOutput

\* the lockfile entry a successful Fetch yields (URL, Rev) and the source
\* fetchGoModule makes of it
ApplySource ==
    /\ inp.fn = "source"
    /\ ~out.set
    /\ LET resp   == InfoResponse(inp.modulePath, inp.version, inp.info)
           golist == GoListOutput(inp.modulePath, inp.version, inp.golist)
           url    == getDownloadURL(inp.proxy, inp.private, inp.modulePath, inp.version,
                                    resp, golist)
           rev    == fetchGitRev(inp.proxy, inp.private, inp.modulePath, inp.version,
                                 resp, golist)
       IN out' = Output([url |-> url, rev |-> rev,
                         src |-> fetchGoModule(inp.modulePath, inp.version,
                                               Omitempty(url), Omitempty(rev))])
    /\ UNCHANGED <<fetcher, env, cache, pc, loc, last, tmp, ncalls, nfault, inp>>

SpecSource == InitSource /\ [][ApplySource]_vars

\* a full commit hash is known for the module, which is on github.com
FullHashKnown == HasPrefix(inp.modulePath, GitHubPrefix) /\ Len(out.val.rev) = 40

\* the source is a checkout pinned to the known commit
PinnedToRev == out.val.src.fetcher = "fetchGit" /\ out.val.src.rev = NixStr(out.val.rev)

\* the module is fetched from its direct source: it is private, or no
\* proxy is configured
DirectSource == inp.proxy = <<>> \/ isPrivate(inp.private, inp.modulePath)

\* C14 as stated: when a full 40-character commit hash is known for a
\* module on github.com that is fetched from its direct source, the source
\* is pinned to that commit and Fetch downloads no tag- or branch-based
\* archive URL; with a missing or shorter hash the checkout by commit is
\* never used.
C14_PinnedCommitFirst ==
    (out.set /\ inp.fn = "source") =>
        /\ (FullHashKnown /\ DirectSource) =>
              /\ PinnedToRev
              /\ ~Contains(out.val.url, Archive \o <<"r", "e", "f", "s", "/">>)
        /\ Len(out.val.rev) # 40 => out.val.src.fetcher # "fetchGit"

(***************************************************************************)
(* verify: the lockfile against go.mod.                                    *)
(***************************************************************************)

\* a go.mod may list at most this many require lines here
MaxRequires == 2

VerifyPaths == {"a", "b"}
VerifyVersions == {"v1", "v2"}
GoVersions == {"1.21", "1.22"}

\* lockfile.Module, of which verify reads Version only
Module(version) == [Version |-> version]

\* lockfile.Replace, of which verify reads Path only: set for a replacement
\* by a local directory, empty for a replacement by another module
Replace(path) == [Path |-> path]

\* lockfile.Lockfile as Load returns it
Lockfiles ==
    [Go : GoVersions,
     Modules : UNION {[D -> {Module(v) : v \in VerifyVersions}] : D \in SUBSET VerifyPaths},
     Replace : UNION {[D -> {Replace(""), Replace("../x")}] : D \in SUBSET VerifyPaths}]

\* mod.Require
Require(path, version) == [Path |-> path, Version |-> version]

\* mod.ModInfo as ParseGoMod returns it: the require lines in file order,
\* a path possibly on more than one line
ModInfos ==
    [GoVersion : GoVersions,
     Requires : SeqsUpTo({Require(p, v) : p \in VerifyPaths, v \in VerifyVersions},
                         MaxRequires)]

\* for path, m := range existing.Modules { lockfileModules[path] = m.Version }
lockfileModules(existing) ==
    [path \in DOMAIN existing.Modules |-> existing.Modules[path].Version]

\* for _, req := range modInfo.Requires { gomodModules[req.Path] = req.Version }
RECURSIVE gomodModulesFrom(_, _, _)
gomodModulesFrom(requires, i, m) ==
    IF i > Len(requires) THEN m
    ELSE gomodModulesFrom(requires, i + 1,
            [path \in DOMAIN m \cup {requires[i].Path} |->
                IF path = requires[i].Path THEN requires[i].Version ELSE m[path]])

gomodModules(modInfo) == gomodModulesFrom(modInfo.Requires, 1, <<>>)

\* the three lists of differences
missing(existing, modInfo) ==
    {path \in DOMAIN gomodModules(modInfo) :
        /\ path \notin DOMAIN lockfileModules(existing)
        /\ ~(path \in DOMAIN existing.Replace /\ existing.Replace[path].Path # "")}

versionMismatch(existing, modInfo) ==
    {path \in DOMAIN gomodModules(modInfo) :
        /\ path \in DOMAIN lockfileModules(existing)
        /\ lockfileModules(existing)[path] # gomodModules(modInfo)[path]}

extra(existing, modInfo) ==
    {path \in DOMAIN lockfileModules(existing) : path \notin DOMAIN gomodModules(modInfo)}

\* a verify that does not look for lockfile modules go.mod does not require
runVerifyIgnoreExtra(existing, modInfo) ==
    IF existing.Go # modInfo.GoVersion
    THEN [err |-> "Go version mismatch"]
    ELSE IF missing(existing, modInfo) # {} \/ versionMismatch(existing, modInfo) # {}
    THEN [err |-> "lockfile verification failed"]
    ELSE [err |-> "nil"]

\* runVerify (cmdVerify in main.go is the same), after both files loaded
runVerify(existing, modInfo) ==
    IF existing.Go # modInfo.GoVersion
    THEN [err |-> "Go version mismatch"]
    ELSE IF \/ missing(existing, modInfo) # {}
            \/ extra(existing, modInfo) # {}
            \/ versionMismatch(existing, modInfo) # {}
    THEN [err |-> "lockfile verification failed"]
    ELSE [err |-> "nil"]

InitVerify ==
    /\ NoFetch
    /\ inp \in [fn : {"verify"}, existing : Lockfiles, modInfo : ModInfos]
    /\ out = NoOutput

\* out := runVerify(cmd, args)
ApplyVerify ==
    /\ inp.fn = "verify"
    /\ ~out.set
    /\ out' = Output(runVerify(inp.existing, inp.modInfo))
    /\ UNCHANGED <<fetcher, env, cache, pc, loc, last, tmp, ncalls, nfault, inp>>

SpecVerify == InitVerify /\ [][ApplyVerify]_vars

\* verify has run and reported success
VerifyOK == out.val.err = "nil"

\* the lockfile's modules and go.mod's require lines, as path-version pairs
LockedSet == {<<p, inp.existing.Modules[p].Version>> : p \in DOMAIN inp.existing.Modules}
RequiredSet == {<<inp.modInfo.Requires[i].Path, inp.modInfo.Requires[i].Version>> :
                   i \in DOMAIN inp.modInfo.Requires}

\* the lockfile replaces the path by a local directory
LocallyReplaced(p) ==
    p \in DOMAIN inp.existing.Replace /\ inp.existing.Replace[p].Path # ""

\* the version on the last require line of a path
LastRequired(p) ==
    LET lines == {i \in DOMAIN inp.modInfo.Requires : inp.modInfo.Requires[i].Path = p}
    IN inp.modInfo.Requires[CHOOSE i \in lines : \A j \in lines : j <= i].Version

\* C16: verify succeeds exactly when the Go versions are equal and the
\* lockfile's modules with their versions are the same set as go.mod's
\* requirements with their versions, a requirement replaced by a local
\* path being allowed to be absent from the lockfile.
C16_VerifyWhenSameSet ==
    (out.set /\ inp.fn = "verify") =>
        (VerifyOK <=>
            /\ inp.existing.Go = inp.modInfo.GoVersion
            /\ LockedSet \subseteq RequiredSet
            /\ \A r \in RequiredSet \ LockedSet :
                  r[1] \notin DOMAIN inp.existing.Modules /\ LocallyReplaced(r[1]))

\* C16, amended: verify succeeds exactly when the Go versions are equal,
\* every path go.mod requires is in the lockfile at the version of the
\* path's last require line or else is absent and replaced by a local
\* path, and the lockfile holds no module go.mod does not require.
C16_VerifyWhenInSync ==
    (out.set /\ inp.fn = "verify") =>
        (VerifyOK <=>
            /\ inp.existing.Go = inp.modInfo.GoVersion
            /\ \A r \in RequiredSet :
                  IF r[1] \in DOMAIN inp.existing.Modules
                  THEN inp.existing.Modules[r[1]].Version = LastRequired(r[1])
                  ELSE LocallyReplaced(r[1])
            /\ \A l \in LockedSet : \E r \in RequiredSet : r[1] = l[1])

\* verify succeeded on a go.mod with two requirements, one in the
\* lockfile and the other replaced by a local path and absent from it
C16_Witness ==
    /\ out.set
    /\ inp.fn = "verify"
    /\ VerifyOK
    /\ Cardinality(RequiredSet) = 2
    /\ Cardinality(LockedSet) = 1
    /\ \E r \in RequiredSet : r[1] \notin DOMAIN inp.existing.Modules /\ LocallyReplaced(r[1])

(***************************************************************************)
(* The NAR stream of a directory tree (internal/hash/nar.go).  A byte is   *)
(* a string: a character of a name, a keyword or a file, or the two hex    *)
(* digits of a length or padding byte.                                     *)
(***************************************************************************)

HexByte == <<"00", "01", "02", "03", "04", "05", "06", "07",
             "08", "09", "0a", "0b", "0c", "0d", "0e", "0f">>

\* byte(length >> (i * 8)) for i = 0..7, of a length below 16
lengthBytes(length) == <<HexByte[length + 1]>> \o [i \in 1..7 |-> HexByte[1]]

\* writeBytes: the length, the data, zero bytes up to a multiple of 8
writeBytes(data) ==
    LET padding == (8 - (Len(data) % 8)) % 8
    IN lengthBytes(Len(data)) \o data \o [i \in 1..padding |-> HexByte[1]]

writeString(s) == writeBytes(s)

\* the test info.Mode()&0100 != 0: the owner's execute bit alone
IsExecutableOwnerOnly(perm) == perm[1] % 2 = 1

\* file modes as three octal digits; info.Mode()&0111 != 0
IsExecutable(perm) == \E i \in 1..3 : perm[i] % 2 = 1

RegularNode(perm, data) == [type |-> "regular", perm |-> perm, data |-> data]
SymlinkNode(target) == [type |-> "symlink", target |-> target]
DirNode(children) == [type |-> "directory", children |-> children]
\* a named pipe, a socket or a device
OtherNode == [type |-> "other"]

\* the byte values of the characters of the entry names used here
ByteOrd(c) == CASE c = "B" -> 66 [] c = "a" -> 97 [] c = "b" -> 98

\* s < t of Go strings: byte-wise, a proper prefix first
RECURSIVE LessFrom(_, _, _)
LessFrom(s, t, i) ==
    IF i > Len(t) THEN FALSE
    ELSE IF i > Len(s) THEN TRUE
    ELSE IF s[i] # t[i] THEN ByteOrd(s[i]) < ByteOrd(t[i])
    ELSE LessFrom(s, t, i + 1)

Less(s, t) == LessFrom(s, t, 1)

RECURSIVE insertEntry(_, _)
insertEntry(sorted, name) ==
    IF sorted = <<>> THEN <<name>>
    ELSE IF Less(name, Head(sorted)) THEN <<name>> \o sorted
    ELSE <<Head(sorted)>> \o insertEntry(Tail(sorted), name)

RECURSIVE sortEntriesFrom(_, _, _)
sortEntriesFrom(entries, i, sorted) ==
    IF i > Len(entries) THEN sorted
    ELSE sortEntriesFrom(entries, i + 1, insertEntry(sorted, entries[i]))

\* sort.Slice(entries, func(i, j) { entries[i].Name() < entries[j].Name() })
sortEntries(entries) == sortEntriesFrom(entries, 1, <<>>)

\* os.ReadDir(path): the names in the directory, read in the order the
\* filesystem lists them and returned sorted by filename (byte-wise)
ReadDir(node, listing) ==
    sortEntriesFrom(SelectSeq(listing, LAMBDA name : name \in DOMAIN node.children), 1, <<>>)

\* the tree holds a node that is no file, directory or symlink
RECURSIVE Unsupported(_)
Unsupported(node) ==
    CASE node.type = "other" -> TRUE
      [] node.type = "directory" ->
            \E name \in DOMAIN node.children : Unsupported(node.children[name])
      [] OTHER -> FALSE

RECURSIVE writeNAREntry(_, _)
RECURSIVE writeEntries(_, _, _, _)
writeEntries(node, entries, i, listing) ==
    IF i > Len(entries) THEN <<>>
    ELSE writeString(<<"e", "n", "t", "r", "y">>) \o writeString(<<"(">>) \o writeString(<<"n", "a", "m", "e">>)
         \o writeString(entries[i]) \o writeString(<<"n", "o", "d", "e">>)
         \o writeNAREntry(node.children[entries[i]], listing)
         \o writeString(<<")">>)
         \o writeEntries(node, entries, i + 1, listing)

writeNAREntry(node, listing) ==
    writeString(<<"(">>) \o writeString(<<"t", "y", "p", "e">>)
    \o (CASE node.type = "regular" ->
               writeString(<<"r", "e", "g", "u", "l", "a", "r">>)
               \o (IF IsExecutable(node.perm)
                   THEN writeString(<<"e", "x", "e", "c", "u", "t", "a", "b", "l", "e">>) \o writeString(<<>>)
                   ELSE <<>>)
               \o writeString(<<"c", "o", "n", "t", "e", "n", "t", "s">>) \o writeBytes(node.data)
          [] node.type = "directory" ->
               writeString(<<"d", "i", "r", "e", "c", "t", "o", "r", "y">>)
               \o writeEntries(node, sortEntries(ReadDir(node, listing)), 1, listing)
          [] node.type = "symlink" ->
               writeString(<<"s", "y", "m", "l", "i", "n", "k">>) \o writeString(<<"t", "a", "r", "g", "e", "t">>)
               \o writeString(node.target))
    \o writeString(<<")">>)

\* writeNAR: the header, written without a length, an empty string, and
\* the root entry; an error when a node's type is unsupported
writeNAR(root, listing) ==
    IF Unsupported(root) THEN [err |-> TRUE]
    ELSE [err |-> FALSE,
          stream |-> <<"n", "i", "x", "-", "a", "r", "c", "h", "i", "v", "e", "-", "1">> \o writeString(<<>>) \o writeNAREntry(root, listing)]

EntryNames == {<<"B">>, <<"a">>, <<"a", "b">>}

\* the orders in which a filesystem may list names
Listings == {l \in [1..Cardinality(EntryNames) -> EntryNames] :
                \A i, j \in DOMAIN l : l[i] = l[j] => i = j}

ChildrenOver(names, nodes) == UNION {[D -> nodes] : D \in SUBSET names}

\* the directories below the root: up to two entries, files and symlinks
SubTrees ==
    {DirNode(c) : c \in ChildrenOver({<<"B">>, <<"a">>},
                                     {RegularNode(<<6, 4, 4>>, <<"x">>), SymlinkNode(<<"x">>)})}

\* the directories hashed: up to three entries, each a file of some mode
\* and content, a symlink, a directory or a node of another type
Trees ==
    {DirNode(c) : c \in ChildrenOver(EntryNames,
        {RegularNode(<<6, 4, 4>>, <<"x">>), RegularNode(<<6, 0, 0>>, <<"x">>),
         RegularNode(<<7, 5, 5>>, <<"x">>), RegularNode(<<6, 5, 4>>, <<>>),
         SymlinkNode(<<"x">>), OtherNode} \cup SubTrees)}

InitNAR ==
    /\ NoFetch
    /\ inp \in [fn : {"writeNAR"}, root : Trees, listing : Listings]
    /\ out = NoOutput

\* the bytes writeNAR(w, path) writes to w
ApplyNAR ==
    /\ inp.fn = "writeNAR"
    /\ ~out.set
    /\ out' = Output(writeNAR(inp.root, inp.listing))
    /\ UNCHANGED <<fetcher, env, cache, pc, loc, last, tmp, ncalls, nfault, inp>>

SpecNAR == InitNAR /\ [][ApplyNAR]_vars

\* the tree with every file's mode reduced to whether it is executable
RECURSIVE ModeForgotten(_)
ModeForgotten(node) ==
    CASE node.type = "regular" ->
            RegularNode(IF \E i \in 1..3 : node.perm[i] % 2 = 1 THEN <<7, 5, 5>> ELSE <<6, 4, 4>>,
                        node.data)
      [] node.type = "directory" ->
            DirNode([name \in DOMAIN node.children |-> ModeForgotten(node.children[name])])
      [] OTHER -> node

\* the directories of a tree
RECURSIVE DirsOf(_)
DirsOf(node) ==
    IF node.type # "directory" THEN {}
    ELSE {node} \cup UNION {DirsOf(node.children[name]) : name \in DOMAIN node.children}

StrictlyAscending(names) ==
    \A i \in 1..(Len(names) - 1) : Less(names[i], names[i + 1])

\* C17: the stream written for a directory tree is the same for every
\* order in which the filesystem lists the directories and for every file
\* mode with the same executable bit, and the children of every directory
\* are written in strictly ascending byte-wise order of their names.
C17_StreamIgnoresListingOrder ==
    (out.set /\ inp.fn = "writeNAR" /\ ~out.val.err) =>
        /\ \A listing \in Listings :
              writeNAR(ModeForgotten(inp.root), listing) = out.val
        /\ \A dir \in DirsOf(inp.root) :
              /\ StrictlyAscending(sortEntries(ReadDir(dir, inp.listing)))
              /\ Len(sortEntries(ReadDir(dir, inp.listing))) = Cardinality(DOMAIN dir.children)

\* a stream written for a root of three children listed in descending
\* order, one of them a directory of two children, one a file whose mode
\* is neither 644 nor 755, another executable for its group only
C17_Witness ==
    /\ out.set
    /\ inp.fn = "writeNAR"
    /\ ~out.val.err
    /\ inp.listing = <<<<"a", "b">>, <<"a">>, <<"B">>>>
    /\ DOMAIN inp.root.children = EntryNames
    /\ \E name \in EntryNames :
          /\ inp.root.children[name].type = "directory"
          /\ Cardinality(DOMAIN inp.root.children[name].children) = 2
    /\ \E name \in EntryNames : inp.root.children[name] = RegularNode(<<6, 0, 0>>, <<"x">>)
    /\ \E name \in EntryNames : inp.root.children[name] = RegularNode(<<6, 5, 4>>, <<>>)

(***************************************************************************)
(* escapePath and escapeModulePath on pairs of short paths.                *)
(***************************************************************************)

\* the longest path escaped
MaxEscapeLen == 3

\* an upper-case letter, its lower-case form, the mark and a separator
EscapeChars == {"A", "a", "!", "/"}

InitEscape ==
    /\ NoFetch
    /\ inp \in [fn : {"escapePath"}, path : SeqsUpTo(EscapeChars, MaxEscapeLen),
                 other : SeqsUpTo(EscapeChars, MaxEscapeLen)]
    /\ out = NoOutput

\* escapePath(path), escapePath(other) and the Nix escapeModulePath path
ApplyEscape ==
    /\ inp.fn = "escapePath"
    /\ ~out.set
    /\ out' = Output([path |-> escapePath(inp.path), other |-> escapePath(inp.other),
                      nix |-> escapeModulePath(inp.path)])
    /\ UNCHANGED <<fetcher, env, cache, pc, loc, last, tmp, ncalls, nfault, inp>>

SpecEscape == InitEscape /\ [][ApplyEscape]_vars

FoldCase(c) == IF IsUpper(c) THEN ToLower(c) ELSE c

NoMark(s) == \A i \in DOMAIN s : s[i] # "!"

\* the escaped string is the path with every upper-case letter replaced by
\* the mark and its lower-case form and every other character kept
EscapedLetterwise(path, escaped) ==
    /\ Len(escaped) = Len(path) + Cardinality({i \in DOMAIN path : IsUpper(path[i])})
    /\ \A i \in DOMAIN path :
          LET k == i + Cardinality({j \in 1..(i - 1) : IsUpper(path[j])})
          IN IF IsUpper(path[i])
             THEN escaped[k] = "!" /\ escaped[k + 1] = ToLower(path[i])
             ELSE escaped[k] = path[i]

\* C18: escapePath replaces each upper-case letter by '!' and its
\* lower-case form and keeps every other character, and two different
\* paths never escape to the same string.
C18_EscapeIsInjective ==
    (out.set /\ inp.fn = "escapePath") =>
        /\ EscapedLetterwise(inp.path, out.val.path)
        /\ inp.path # inp.other => out.val.path # out.val.other

\* C18, amended: escapePath replaces each upper-case letter by '!' and its
\* lower-case form and keeps every other character, in Go and in Nix
\* alike, and two different paths that hold no '!' never escape to the
\* same string.
C18_EscapeIsInjectiveWithoutMark ==
    (out.set /\ inp.fn = "escapePath") =>
        /\ EscapedLetterwise(inp.path, out.val.path)
        /\ out.val.nix = out.val.path
        /\ (NoMark(inp.path) /\ NoMark(inp.other) /\ inp.path # inp.other)
              => out.val.path # out.val.other

\* two paths that differ only in the case of a letter, escaped
C18_Witness ==
    /\ out.set
    /\ inp.fn = "escapePath"
    /\ inp.path = <<"A", "/", "a">>
    /\ inp.other = <<"a", "/", "a">>
    /\ out.val.path = <<"!", "a", "/", "a">>
    /\ out.val.other = inp.other

(***************************************************************************)
(* getModuleInfoManual on version strings.                                 *)
(***************************************************************************)

\* the longest tail appended to a version's beginning
MaxTailLen == 2

\* beginnings of versions: none, the pseudo-version prefix, the same
\* without its hyphen, a release and a pre-release
VersionHeads == {<<>>, PseudoPrefix, <<"v", "0", ".", "0", ".", "0">>, <<"v", "1", ".", "2", ".", "3">>, <<"v", "1", ".", "0", ".", "0", "-">>}

ManualVersions ==
    {h \o t : h \in VersionHeads, t \in SeqsUpTo({"-", "a", "1", "+"}, MaxTailLen)}

\* github.com modules at the root of a repository and below it, a
\* github.com path without a repository, and a module on another host
ManualPaths == {<<"g", "i", "t", "h", "u", "b", ".", "c", "o", "m", "/", "o", "/", "p">>, <<"g", "i", "t", "h", "u", "b", ".", "c", "o", "m", "/", "o", "/", "p", "/", "s", "u", "b", "/", "d", "i", "r">>, <<"g", "i", "t", "h", "u", "b", ".", "c", "o", "m", "/", "o">>, <<"x", ".", "i", "o", "/", "m">>}

InitManual ==
    /\ NoFetch
    /\ inp \in [fn : {"getModuleInfoManual"}, modulePath : ManualPaths,
                 version : ManualVersions]
    /\ out = NoOutput

\* info, err := f.getModuleInfoManual(modulePath, version); err is nil
ApplyManual ==
    /\ inp.fn = "getModuleInfoManual"
    /\ ~out.set
    /\ out' = Output(getModuleInfoManual(inp.modulePath, inp.version))
    /\ UNCHANGED <<fetcher, env, cache, pc, loc, last, tmp, ncalls, nfault, inp>>

SpecManual == InitManual /\ [][ApplyManual]_vars

\* the text after the last hyphen of a string that holds one
AfterLastHyphen(s) ==
    LET k == CHOOSE i \in DOMAIN s :
                 s[i] = "-" /\ \A j \in (i + 1)..Len(s) : s[j] # "-"
    IN [j \in 1..(Len(s) - k) |-> s[k + j]]

\* the path names a repository on github.com: owner and repository
InRepository(modulePath) ==
    /\ StartsWith(modulePath, GitHubPrefix)
    /\ \E i \in (Len(GitHubPrefix) + 1)..Len(modulePath) : modulePath[i] = "/"

\* C19: for a module in a github.com repository, getModuleInfoManual
\* returns provenance and no error; a version that begins with 'v0.0.0-'
\* gives the text after its last hyphen as commit hash and no ref, any
\* other version, the empty one included, gives ref 'refs/tags/<version>'
\* and no commit hash.
C19_ManualProvenance ==
    (out.set /\ inp.fn = "getModuleInfoManual" /\ InRepository(inp.modulePath)) =>
        /\ ~out.val.nil
        /\ out.val.Version = inp.version
        /\ ~out.val.Origin.nil
        /\ IF StartsWith(inp.version, PseudoPrefix)
           THEN /\ out.val.Origin.Hash = AfterLastHyphen(inp.version)
                /\ out.val.Origin.Ref = <<>>
           ELSE /\ out.val.Origin.Ref = RefsTags \o inp.version
                /\ out.val.Origin.Hash = <<>>

\* a version with the pseudo-version prefix and a '+' suffix, whose text
\* after the last hyphen became the commit hash
C19_Witness ==
    /\ out.set
    /\ inp.fn = "getModuleInfoManual"
    /\ inp.modulePath = <<"g", "i", "t", "h", "u", "b", ".", "c", "o", "m", "/", "o", "/", "p", "/", "s", "u", "b", "/", "d", "i", "r">>
    /\ inp.version = PseudoPrefix \o <<"a", "+">>
    /\ out.val.Origin.Hash = <<"a", "+">>
    /\ out.val.Origin.Ref = <<>>

(***************************************************************************)
(* buildGitHubArchiveURL on the provenance buildGitHubURL passes to it:    *)
(* VCS git and a URL on https://github.com/.                               *)
(***************************************************************************)

\* the longest tag or branch name
MaxNameLen == 2

RefNames == SeqsUpTo({"v", "1", "/", " "}, MaxNameLen)

\* Origin.Ref: absent, a tag, a branch, or a ref of another kind
OriginRefs ==
    {<<>>, <<"H", "E", "A", "D">>, <<"r", "e", "f", "s", "/", "p", "u", "l", "l", "/", "1">>}
        \cup {RefsTags \o n : n \in RefNames} \cup {RefsHeads \o n : n \in RefNames}

OriginURLs == {<<"h", "t", "t", "p", "s", ":", "/", "/", "g", "i", "t", "h", "u", "b", ".", "c", "o", "m", "/", "o", "/", "p">>, <<"h", "t", "t", "p", "s", ":", "/", "/", "g", "i", "t", "h", "u", "b", ".", "c", "o", "m", "/", "o", "/", "p", ".", "g", "i", "t">>}

OriginHashes == {<<>>, <<"a", "b", "c">>}

InitArchive ==
    /\ NoFetch
    /\ inp \in [fn : {"buildGitHubArchiveURL"},
                 info : {MkInfo(<<"v", "1">>, MkOrigin(<<"g", "i", "t">>, u, r, h)) :
                            u \in OriginURLs, r \in OriginRefs, h \in OriginHashes}]
    /\ out = NoOutput

\* archiveURL := f.buildGitHubArchiveURL(info)
ApplyArchive ==
    /\ inp.fn = "buildGitHubArchiveURL"
    /\ ~out.set
    /\ out' = Output(buildGitHubArchiveURL(inp.info))
    /\ UNCHANGED <<fetcher, env, cache, pc, loc, last, tmp, ncalls, nfault, inp>>

SpecArchive == InitArchive /\ [][ApplyArchive]_vars

\* the repository's URL: Origin.URL without a trailing ".git"
RepoOf(info) ==
    IF EndsWith(info.Origin.URL, DotGit)
    THEN [i \in 1..(Len(info.Origin.URL) - Len(DotGit)) |-> info.Origin.URL[i]]
    ELSE info.Origin.URL

IsTagRef(info) == StartsWith(info.Origin.Ref, RefsTags)
IsBranchRef(info) == StartsWith(info.Origin.Ref, RefsHeads)

\* the name of a tag or branch ref: the ref without its kind
RefName(info, kind) == [i \in 1..(Len(info.Origin.Ref) - Len(kind)) |-> info.Origin.Ref[Len(kind) + i]]

\* the archive URL of the provenance, a function of how the ref's name
\* is written into it
ArchiveURLWith(info, written(_)) ==
    IF IsTagRef(info)
    THEN RepoOf(info) \o Archive \o RefsTags \o written(RefName(info, RefsTags)) \o DotZip
    ELSE IF IsBranchRef(info)
    THEN RepoOf(info) \o Archive \o RefsHeads \o written(RefName(info, RefsHeads)) \o DotZip
    ELSE IF info.Origin.Hash # <<>>
    THEN RepoOf(info) \o Archive \o info.Origin.Hash \o DotZip
    ELSE <<>>

Verbatim(name) == name

\* C20: the archive URL is {repoURL}/archive/refs/tags/{name}.zip for a tag
\* ref, {repoURL}/archive/refs/heads/{name}.zip for a branch ref, and
\* {repoURL}/archive/{commitHash}.zip only when the ref is neither and a
\* commit hash is present; a tag or branch ref precedes a commit hash.
C20_ArchiveURLByRef ==
    (out.set /\ inp.fn = "buildGitHubArchiveURL") =>
        out.val = ArchiveURLWith(inp.info, Verbatim)

\* C20, amended: as above with {name} written percent-escaped as one path
\* segment (url.PathEscape), the commit hash written as it is, and no URL
\* when the ref is neither a tag nor a branch and no commit hash is known.
C20_ArchiveURLByEscapedRef ==
    (out.set /\ inp.fn = "buildGitHubArchiveURL") =>
        out.val = ArchiveURLWith(inp.info, PathEscape)

\* provenance with a tag ref whose name holds a slash and with a commit
\* hash: the tag's URL, the slash escaped, the hash unused
C20_Witness ==
    /\ out.set
    /\ inp.fn = "buildGitHubArchiveURL"
    /\ inp.info.Origin.Ref = RefsTags \o <<"/", "v">>
    /\ inp.info.Origin.Hash # <<>>
    /\ inp.info.Origin.URL = <<"h", "t", "t", "p", "s", ":", "/", "/", "g", "i", "t", "h", "u", "b", ".", "c", "o", "m", "/", "o", "/", "p", ".", "g", "i", "t">>
    /\ out.val = <<"h", "t", "t", "p", "s", ":", "/", "/", "g", "i", "t", "h", "u", "b", ".", "c", "o", "m", "/", "o", "/", "p", "/", "a", "r", "c", "h", "i", "v", "e", "/", "r", "e", "f", "s", "/", "t", "a", "g", "s", "/", "%", "2", "F", "v", ".", "z", "i", "p">>

(***************************************************************************)
(* directURL on module paths of every route.                               *)
(***************************************************************************)

\* modules on a host of their own, with and without path and upper-case
\* letters; paths that nearly hold the registry infix; registry modules;
\* github.com modules, one of them with the registry infix
DirectPaths ==
    {<<"x", ".", "i", "o", "/", "M", "o", "d">>, <<"x", ".", "i", "o">>, <<"x", ".", "i", "o", "/", "a", "/", "B">>, <<"x", ".", "i", "o", "/", "g", "e", "n", "/", "g", "o">>, <<"g", "e", "n", "/", "g", "o", "/", "x">>,
     <<"b", "u", "f", ".", "b", "u", "i", "l", "d", "/", "g", "e", "n", "/", "g", "o", "/", "a", "/", "B">>, <<"x", ".", "i", "o", "/", "g", "e", "n", "/", "g", "o", "/">>, <<"g", "i", "t", "h", "u", "b", ".", "c", "o", "m", "/", "o", "/", "p">>,
     <<"g", "i", "t", "h", "u", "b", ".", "c", "o", "m", "/", "g", "e", "n", "/", "g", "o", "/", "x">>}

\* a release and a version that url.PathEscape changes
DirectVersions == {<<"v", "1", ".", "2", ".", "3">>, <<"v", "1", " ", "2">>}

InitDirect ==
    /\ NoFetch
    /\ inp \in [fn : {"directURL"}, proxy : Proxies, private : PrivateLists,
                 modulePath : DirectPaths, version : DirectVersions,
                 info : InfoKinds, golist : BOOLEAN]
    /\ out = NoOutput

\* out := f.directURL(modulePath, version)
ApplyDirect ==
    /\ inp.fn = "directURL"
    /\ ~out.set
    /\ out' = Output(directURL(inp.proxy, inp.private, inp.modulePath, inp.version,
                         InfoResponse(inp.modulePath, inp.version, inp.info),
                         GoListOutput(inp.modulePath, inp.version, inp.golist)))
    /\ UNCHANGED <<fetcher, env, cache, pc, loc, last, tmp, ncalls, nfault, inp>>

SpecDirect == InitDirect /\ [][ApplyDirect]_vars

\* the position of the first slash of a path, one past its end without one
FirstSlash(path) ==
    IF \E i \in DOMAIN path : path[i] = "/"
    THEN CHOOSE i \in DOMAIN path : path[i] = "/" /\ \A j \in 1..(i - 1) : path[j] # "/"
    ELSE Len(path) + 1

HostOf(path) == [i \in 1..(FirstSlash(path) - 1) |-> path[i]]

RemainderOf(path) == [i \in 1..(Len(path) - FirstSlash(path)) |-> path[FirstSlash(path) + i]]

OnGitHub(path) == StartsWith(path, GitHubPrefix)

HasRegistryInfix(path) ==
    \E i \in DOMAIN path :
        i + Len(BSRInfix) - 1 <= Len(path)
        /\ \A k \in DOMAIN BSRInfix : path[i + k - 1] = BSRInfix[k]

\* C21: for a module neither on github.com nor with the registry infix,
\* the direct URL is https://{host}/{escape(path after the host
\* segment)}/@v/{escaped version}.zip.
C21_GenericURLOfRemainder ==
    (out.set /\ inp.fn = "directURL"
        /\ ~OnGitHub(inp.modulePath) /\ ~HasRegistryInfix(inp.modulePath)) =>
        out.val = Https \o HostOf(inp.modulePath) \o <<"/">>
                    \o escapePath(RemainderOf(inp.modulePath))
                    \o AtV \o PathEscape(inp.version) \o DotZip

\* C21, amended: for such a module the direct URL is
\* https://{host}/{escape(full path)}/@v/{escaped version}.zip, the host
\* segment standing in it twice.
C21_GenericURLOfFullPath ==
    (out.set /\ inp.fn = "directURL"
        /\ ~OnGitHub(inp.modulePath) /\ ~HasRegistryInfix(inp.modulePath)) =>
        out.val = Https \o HostOf(inp.modulePath) \o <<"/">>
                    \o escapePath(inp.modulePath)
                    \o AtV \o PathEscape(inp.version) \o DotZip

\* the direct URL of x.io/Mod at a version with a space
C21_Witness ==
    /\ out.set
    /\ inp.fn = "directURL"
    /\ inp.modulePath = <<"x", ".", "i", "o", "/", "M", "o", "d">>
    /\ out.val = <<"h", "t", "t", "p", "s", ":", "/", "/", "x", ".", "i", "o", "/", "x", ".", "i", "o", "/", "!", "m", "o", "d", "/", "@", "v", "/", "v", "1", "%", "2", "0", "2", ".", "z", "i", "p">>

\* C22: a path that does not begin with 'github.com/' and holds
\* '/gen/go/' has the direct URL https://{host}/gen/go/{escape(full
\* path)}/@v/{escaped version}.zip; a path that begins with 'github.com/'
\* gets a github.com archive URL even when it holds '/gen/go/'.
C22_RegistryURLOfFullPath ==
    (out.set /\ inp.fn = "directURL") =>
        /\ (~OnGitHub(inp.modulePath) /\ HasRegistryInfix(inp.modulePath)) =>
              out.val = Https \o HostOf(inp.modulePath) \o BSRInfix
                          \o escapePath(inp.modulePath)
                          \o AtV \o PathEscape(inp.version) \o DotZip
        /\ OnGitHub(inp.modulePath) =>
              /\ StartsWith(out.val, GitHubURL)
              /\ Contains(out.val, Archive)
              /\ ~Contains(out.val, AtV)

\* a github.com path with the registry infix, resolved to an archive URL
C22_Witness ==
    /\ out.set
    /\ inp.fn = "directURL"
    /\ inp.modulePath = <<"g", "i", "t", "h", "u", "b", ".", "c", "o", "m", "/", "g", "e", "n", "/", "g", "o", "/", "x">>
    /\ Contains(out.val, Archive)

\* the number a length byte stands for, 16 for a byte that is none
ByteValue(b) ==
    IF \E n \in DOMAIN HexByte : HexByte[n] = b
    THEN (CHOOSE n \in DOMAIN HexByte : HexByte[n] = b) - 1
    ELSE 16

\* the stream from position i on is a sequence of fields, each an 8-byte
\* little-endian count, that many bytes, and zero bytes up to a multiple
\* of 8
RECURSIVE FramedFrom(_, _)
FramedFrom(stream, i) ==
    IF i > Len(stream) THEN TRUE
    ELSE /\ i + 7 <= Len(stream)
         /\ ByteValue(stream[i]) < 16
         /\ \A k \in 1..7 : stream[i + k] = HexByte[1]
         /\ LET n    == ByteValue(stream[i])
                padn == (8 - (n % 8)) % 8
            IN /\ i + 7 + n + padn <= Len(stream)
               /\ \A k \in 1..padn : stream[i + 7 + n + k] = HexByte[1]
               /\ FramedFrom(stream, i + 8 + n + padn)

\* C24: every field of the stream, the leading format marker included, is
\* an 8-byte count, the bytes and zero padding to a multiple of 8: the
\* stream is a sequence of such fields, the first one holding the marker,
\* and its length is a multiple of 8.
C24_EveryFieldFramed ==
    (out.set /\ inp.fn = "writeNAR" /\ ~out.val.err) =>
        /\ FramedFrom(out.val.stream, 1)
        /\ SubSeq(out.val.stream, 1, 24) = writeString(<<"n", "i", "x", "-", "a", "r", "c", "h", "i", "v", "e", "-", "1">>)
        /\ Len(out.val.stream) % 8 = 0

(***************************************************************************)
(* generate, then verify on the project as it is.  nopher has two          *)
(* command lines: the one of cmd/ (runGenerate, runVerify) and the one of  *)
(* main.go (cmdGenerate, cmdVerify).                                       *)
(***************************************************************************)

\* m with key k set to v
Put(m, k, v) == [x \in DOMAIN m \cup {k} |-> IF x = k THEN v ELSE m[x]]

\* what Fetch returns for a module the servers hold
Fetched(path, version) ==
    [Hash |-> <<"hash", path, version>>, URL |-> <<"url", path, version>>,
     Rev |-> <<"rev", path, version>>]

\* lockfile.Module{Version, Hash, URL, Rev} of a fetch result
LockedModule(version, result) ==
    [Version |-> version, Hash |-> result.Hash, URL |-> result.URL, Rev |-> result.Rev]

\* lockfile.Module{Version, Hash} of a fetch result, as main.go writes it:
\* no URL and no revision
HashedModule(version, result) ==
    [Version |-> version, Hash |-> result.Hash, URL |-> <<>>, Rev |-> <<>>]

\* lockfile.Replace of a replacement by another module
RemoteReplace(new, version, result) ==
    [Path |-> "", New |-> new, Version |-> version, Hash |-> result.Hash]

\* lockfile.Replace{Path: rep.New}
LocalReplace(path) == [Path |-> path, New |-> "", Version |-> "", Hash |-> <<>>]

\* mod.Replace of go.mod, keyed by Old: IsLocal when New begins with ./ or
\* ../ or is absolute
GoModReplaces ==
    UNION {[D -> {[New |-> "../x", NewVersion |-> "", IsLocal |-> TRUE],
                  [New |-> "c", NewVersion |-> "v1", IsLocal |-> FALSE]}] :
             D \in SUBSET VerifyPaths}

\* go.sum as ParseGoSum and the lookup see it: the path@version keys
GoSums == SUBSET (VerifyPaths \X VerifyVersions)

\* the lockfile after runGenerate's loop over modInfo.Replaces
generateReplaces(replaces) ==
    [old \in DOMAIN replaces |->
        IF replaces[old].IsLocal
        THEN LocalReplace(replaces[old].New)
        ELSE RemoteReplace(replaces[old].New, replaces[old].NewVersion,
                           Fetched(replaces[old].New, replaces[old].NewVersion))]

\* runGenerate's loop over modInfo.Requires (generate.go:129-162)
RECURSIVE generateModules(_, _, _, _, _)
generateModules(requires, i, replace, sums, modules) ==
    IF i > Len(requires) THEN modules
    ELSE LET req == requires[i] IN
         IF req.Path \in DOMAIN replace /\ replace[req.Path].Path # ""
         THEN generateModules(requires, i + 1, replace, sums, modules)
         ELSE IF <<req.Path, req.Version>> \notin sums
         THEN generateModules(requires, i + 1, replace, sums, modules)
         ELSE generateModules(requires, i + 1, replace, sums,
                  Put(modules, req.Path,
                      LockedModule(req.Version, Fetched(req.Path, req.Version))))

\* the modules runGenerate fetches, replacements included
generateFetches(modInfo, replaces, sums) ==
    {old \in DOMAIN replaces : ~replaces[old].IsLocal}
        \cup DOMAIN generateModules(modInfo.Requires, 1, generateReplaces(replaces), sums, <<>>)

\* runGenerate (cmd/generate.go:37-167): the lockfile saved, or an error
\* when a Fetch fails
runGenerate(modInfo, replaces, sums, fetchWorks) ==
    IF ~fetchWorks /\ generateFetches(modInfo, replaces, sums) # {}
    THEN [err |-> "fetching", saved |-> FALSE]
    ELSE [err |-> "nil", saved |-> TRUE,
          lockfile |-> [Go |-> modInfo.GoVersion,
                        Modules |-> generateModules(modInfo.Requires, 1,
                                        generateReplaces(replaces), sums, <<>>),
                        Replace |-> generateReplaces(replaces)]]

\* cmdGenerate's loop over modInfo.Requires (main.go:131-180): a replaced
\* requirement goes to the replace section only
RECURSIVE cmdGenerateFrom(_, _, _, _)
cmdGenerateFrom(requires, i, replaces, lf) ==
    IF i > Len(requires) THEN lf
    ELSE LET req == requires[i] IN
         IF req.Path \in DOMAIN replaces
         THEN cmdGenerateFrom(requires, i + 1, replaces,
                  [lf EXCEPT !.Replace =
                      Put(@, req.Path,
                          IF replaces[req.Path].IsLocal
                          THEN LocalReplace(replaces[req.Path].New)
                          ELSE RemoteReplace(replaces[req.Path].New,
                                   replaces[req.Path].NewVersion,
                                   Fetched(replaces[req.Path].New,
                                           replaces[req.Path].NewVersion)))])
         ELSE cmdGenerateFrom(requires, i + 1, replaces,
                  [lf EXCEPT !.Modules =
                      Put(@, req.Path, HashedModule(req.Version,
                                           Fetched(req.Path, req.Version)))])

\* cmdGenerate (main.go:69-192)
cmdGenerate(modInfo, replaces, sums, fetchWorks) ==
    LET lf == cmdGenerateFrom(modInfo.Requires, 1, replaces,
                  [Go |-> modInfo.GoVersion, Modules |-> <<>>, Replace |-> <<>>])
    IN
    IF ~fetchWorks /\ \E i \in DOMAIN modInfo.Requires :
                         ~(/\ modInfo.Requires[i].Path \in DOMAIN replaces
                           /\ replaces[modInfo.Requires[i].Path].IsLocal)
    THEN [err |-> "fetching", saved |-> FALSE]
    ELSE [err |-> "nil", saved |-> TRUE, lockfile |-> lf]

InitGenerate ==
    /\ NoFetch
    /\ inp \in [fn : {"generate"}, cli : {"cmd", "main"}, modInfo : ModInfos,
                 replaces : GoModReplaces, sums : GoSums, fetchWorks : BOOLEAN]
    /\ out = NoOutput

\* nopher generate
Generate ==
    /\ inp.fn = "generate"
    /\ ~out.set
    /\ out' = Output([generated |->
                         IF inp.cli = "cmd"
                         THEN runGenerate(inp.modInfo, inp.replaces, inp.sums, inp.fetchWorks)
                         ELSE cmdGenerate(inp.modInfo, inp.replaces, inp.sums, inp.fetchWorks),
                      verified |-> [err |-> "not run"]])
    /\ UNCHANGED <<fetcher, env, cache, pc, loc, last, tmp, ncalls, nfault, inp>>

\* nopher verify, after a generate that saved a lockfile
VerifyGenerated ==
    /\ inp.fn = "generate"
    /\ out.set
    /\ out.val.generated.saved
    /\ out.val.verified.err = "not run"
    /\ out' = [out EXCEPT !.val.verified = runVerify(out.val.generated.lockfile, inp.modInfo)]
    /\ UNCHANGED <<fetcher, env, cache, pc, loc, last, tmp, ncalls, nfault, inp>>

SpecGenerate == InitGenerate /\ [][Generate \/ VerifyGenerated]_vars

\* C25: after a generate that succeeded, verify on the unchanged project
\* succeeds.
C25_VerifyAfterGenerate ==
    (out.set /\ inp.fn = "generate" /\ out.val.verified.err # "not run") =>
        out.val.verified.err = "nil"

(***************************************************************************)
(* Where extract writes an archive entry (module.go:528-543).  A path of   *)
(* the filesystem is the sequence of its segments below the root.          *)
(***************************************************************************)

\* the most segments an entry name has after its first
MaxSegments == 3

\* filepath.Clean of a rooted path given by its segments: empty segments
\* and "." are dropped, ".." removes the segment before it, and nothing at
\* the root
RECURSIVE CleanFrom(_, _, _)
CleanFrom(segments, i, cleaned) ==
    IF i > Len(segments) THEN cleaned
    ELSE IF segments[i] \in {<<>>, <<".">>}
    THEN CleanFrom(segments, i + 1, cleaned)
    ELSE IF segments[i] = <<".", ".">>
    THEN CleanFrom(segments, i + 1,
                   IF cleaned = <<>> THEN <<>> ELSE SubSeq(cleaned, 1, Len(cleaned) - 1))
    ELSE CleanFrom(segments, i + 1, Append(cleaned, segments[i]))

\* filepath.Join(dir, name) for a clean rooted dir
FilepathJoin(dir, name) == CleanFrom(dir \o Split(name, "/"), 1, <<>>)

\* the module extracted and its directory in the cache
ExtractedPath == <<"m">>
ExtractedVersion == <<"v", "1">>
TargetDir == <<<<"c", "a", "c", "h", "e">>, <<"m", "@", "v", "1">>>>

\* targetPath of an entry, Nil for an entry extract skips
targetPath(entryName) ==
    LET name == stripName(entryName, ExtractedPath, ExtractedVersion) IN
    IF name = <<>> THEN Nil
    ELSE [nil |-> FALSE, path |-> FilepathJoin(TargetDir, name)]

\* entry names: the module's prefix, another first segment or none,
\* followed by segments, some of them "." and ".."
EntryRoots == {<<"m", "@", "v", "1", "/">>, <<"s", "r", "c", "-", "1", "/">>, <<>>}
EntryTails ==
    {Join(segs, <<"/">>) :
        segs \in SeqsUpTo({<<"a">>, <<".">>, <<".", ".">>, <<"m", "@", "v", "1", ".", "h", "a", "s", "h">>}, MaxSegments)}

InitExtractPath ==
    /\ NoFetch
    /\ inp \in [fn : {"extract"}, root : EntryRoots, tail : EntryTails]
    /\ out = NoOutput

\* one entry of extract's loop: the directory made or the file created
ApplyExtractPath ==
    /\ inp.fn = "extract"
    /\ ~out.set
    /\ out' = Output(targetPath(inp.root \o inp.tail))
    /\ UNCHANGED <<fetcher, env, cache, pc, loc, last, tmp, ncalls, nfault, inp>>

SpecExtractPath == InitExtractPath /\ [][ApplyExtractPath]_vars

\* the path is the directory or lies below it
Inside(path, dir) == Len(path) >= Len(dir) /\ \A i \in DOMAIN dir : path[i] = dir[i]

\* C26: every entry extract writes is written inside the target cache
\* directory, whatever its name.
C26_ExtractStaysInside ==
    (out.set /\ inp.fn = "extract" /\ ~out.val.nil) => Inside(out.val.path, TargetDir)

(***************************************************************************)
(* The files of a cache entry (module.go:118-122), as paths made of        *)
(* segments.                                                               *)
(***************************************************************************)

CacheDir == <<<<"c", "a", "c", "h", "e">>>>

\* cachedDir := filepath.Join(f.CacheDir, cacheKey)
cachedDir(modulePath, version) == FilepathJoin(CacheDir, cacheKey(modulePath, version))

\* dir + suffix, string concatenation on the path's last segment
WithSuffix(dir, suffix) ==
    IF dir = <<>> THEN <<suffix>>
    ELSE [dir EXCEPT ![Len(dir)] = @ \o suffix]

\* the directory and the three sidecar files Fetch uses for a pair
entryFiles(modulePath, version) ==
    LET dir == cachedDir(modulePath, version) IN
    [dir  |-> dir,
     hash |-> WithSuffix(dir, <<".", "h", "a", "s", "h">>),
     url  |-> WithSuffix(dir, <<".", "u", "r", "l">>),
     rev  |-> WithSuffix(dir, <<".", "r", "e", "v">>)]

KeyPaths == {<<"m">>, <<"M">>, <<"!", "m">>, <<"x", "/", "m">>, <<"m", "@", "v", "1">>}
KeyVersions == {<<"v", "1">>, <<"v", "1", "-", "r", "c">>, <<"v", "1", "-", "r", "c", ".", "h", "a", "s", "h">>, <<"v", "1", "@", "v", "1">>}

InitCacheKey ==
    /\ NoFetch
    /\ inp \in [fn : {"cacheKey"}, path1 : KeyPaths, version1 : KeyVersions,
                 path2 : KeyPaths, version2 : KeyVersions]
    /\ out = NoOutput

\* the first lines of two calls of Fetch
ApplyCacheKey ==
    /\ inp.fn = "cacheKey"
    /\ ~out.set
    /\ out' = Output(<<entryFiles(inp.path1, inp.version1),
                       entryFiles(inp.path2, inp.version2)>>)
    /\ UNCHANGED <<fetcher, env, cache, pc, loc, last, tmp, ncalls, nfault, inp>>

SpecCacheKey == InitCacheKey /\ [][ApplyCacheKey]_vars

FilesOf(e) == {e.dir, e.hash, e.url, e.rev}

\* C27: distinct (path, version) pairs have distinct cache directories and
\* sidecar files, and no file or directory of one pair is one of the other.
C27_DistinctPairsDistinctFiles ==
    (out.set /\ inp.fn = "cacheKey"
        /\ <<inp.path1, inp.version1>> # <<inp.path2, inp.version2>>)
    => FilesOf(out.val[1]) \cap FilesOf(out.val[2]) = {}

(***************************************************************************)
(* update: one module of the lockfile fetched again (cmd/update.go).       *)
(* A file is unreadable (missing or not YAML) or holds a document; a       *)
(* section of the document is present or absent.                           *)
(***************************************************************************)

\* const SchemaVersion
SchemaVersion == 1

Unreadable == [readable |-> FALSE]

Section(entries) == [present |-> TRUE, entries |-> entries]
Absent == [present |-> FALSE, entries |-> <<>>]

Document(schema, go, modules, replace) ==
    [readable |-> TRUE, schema |-> schema, go |-> go, modules |-> modules,
     replace |-> replace]

\* a Go map: nil, or holding entries
NilMap == [nil |-> TRUE, m |-> <<>>]
Map(entries) == [nil |-> FALSE, m |-> entries]

\* lockfile.Load (yaml.go:17-30): yaml.Unmarshal leaves the map of an
\* absent section nil
Load(file) ==
    IF ~file.readable THEN [err |-> "reading lockfile"]
    ELSE [err |-> "nil",
          lf |-> [Schema  |-> file.schema,
                  Go      |-> file.go,
                  Modules |-> IF file.modules.present THEN Map(file.modules.entries)
                              ELSE NilMap,
                  Replace |-> IF file.replace.present THEN Map(file.replace.entries)
                              ELSE NilMap]]

\* yaml.Marshal of a map field tagged omitempty: no section for a nil or
\* empty map
marshalMap(m) == IF m.nil \/ m.m = <<>> THEN Absent ELSE Section(m.m)

\* the order yaml.Marshal writes the keys of a map in: sorted
KeyOrder == <<"a", "b">>

\* the fields of lockfile.Module and lockfile.Replace in the order
\* yaml.Marshal writes them
ModuleFields == <<"Version", "Hash", "URL", "Rev">>
ReplaceFields == <<"New", "Version", "Hash", "Path">>

\* the zero value of a field: Hash, URL and Rev are written as token
\* sequences, the other strings as they are
ZeroOf(field) == IF field \in {"Hash", "URL", "Rev"} THEN <<>> ELSE ""

\* the values a field's line holds when it is cut short: no value, or a
\* proper prefix of the value
ProperPrefixes(field, value) ==
    IF field \in {"Hash", "URL", "Rev"}
    THEN {SubSeq(value, 1, n) : n \in 0..(Len(value) - 1)}
    ELSE IF value = "" THEN {}
    ELSE {""} \cup (IF value \in VerifyVersions THEN {"v"}
                    ELSE IF value = "../x" THEN {".", "..", "../"}
                    ELSE {})

\* the entry read from a map entry cut in the line of field j: the fields
\* before it whole, the field cut short, the fields after it zero
CutRecord(entry, fields, j, short) ==
    [f \in DOMAIN entry |->
        LET i == CHOOSE n \in DOMAIN fields : fields[n] = f IN
        IF i < j THEN entry[f] ELSE IF i = j THEN short ELSE ZeroOf(f)]

\* the entries read from a prefix of a map entry's lines
PartialRecords(entry, fields) ==
    {entry} \cup
    UNION {{CutRecord(entry, fields, j, short) :
               short \in ProperPrefixes(fields[j], entry[fields[j]])} :
             j \in DOMAIN fields}

\* the sections read from a prefix of a section's lines: the line of the
\* section alone, or the entries in key order up to one that may be cut
PartialSections(entries, fields) ==
    LET keys == SelectSeq(KeyOrder, LAMBDA k : k \in DOMAIN entries) IN
    {Absent} \cup
    UNION {{Section(Put([k \in {keys[n] : n \in 1..(i - 1)} |-> entries[k]], keys[i], r)) :
               r \in PartialRecords(entries[keys[i]], fields)} :
             i \in DOMAIN keys}

\* the files a write of the document leaves when it fails after the open
\* has truncated the file: Load reads a prefix of the document's bytes, a
\* document when the cut falls after a key's colon or in a plain value,
\* nothing readable when it falls in a key or a quoted value.  An empty
\* file is a YAML document, the one of a zero Lockfile
CutDocuments(data) ==
    {Unreadable,
     Document(0, "", Absent, Absent),
     Document(data.schema, "", Absent, Absent),
     Document(data.schema, data.go, Absent, Absent)}
    \cup (IF data.modules.present
          THEN {Document(data.schema, data.go, section, Absent) :
                   section \in PartialSections(data.modules.entries, ModuleFields)}
          ELSE {})
    \cup (IF data.replace.present
          THEN {Document(data.schema, data.go, data.modules, section) :
                   section \in PartialSections(data.replace.entries, ReplaceFields)}
          ELSE {})

\* Lockfile.Save / SaveYAML (yaml.go:32-48) over the file that is there:
\* the errors it can return, each with the file os.WriteFile leaves: the
\* document; the file as it was when the open fails; a file cut short
\* when the write fails
SaveYAML(lf, file) ==
    LET data == Document(lf.Schema, lf.Go, marshalMap(lf.Modules), marshalMap(lf.Replace)) IN
    {[err |-> "nil", file |-> data]}
    \cup {[err |-> "writing lockfile", file |-> left] : left \in {file} \cup CutDocuments(data)}

\* the lockfile entries update may find: up to date, of the other
\* version, or with a hash that is not the one fetched now
LockedEntries(path) ==
    {LockedModule(v, Fetched(path, v)) : v \in VerifyVersions}
        \cup {[Version |-> "v1", Hash |-> <<"hash", "old">>, URL |-> <<>>, Rev |-> <<>>]}

ModuleSections ==
    {Absent} \cup
    UNION {{Section(m) : m \in {x \in [D -> UNION {LockedEntries(p) : p \in D}] :
                                    \A p \in D : x[p] \in LockedEntries(p)}} :
              D \in SUBSET VerifyPaths}

ReplaceSections ==
    {Absent} \cup
    UNION {{Section(m) : m \in [D -> {LocalReplace("../x"),
                                      RemoteReplace("c", "v1", Fetched("c", "v1"))}]} :
              D \in SUBSET VerifyPaths \ {{}}}

LockfileFiles ==
    {Unreadable} \cup
    {Document(SchemaVersion, "1.21", m, r) : m \in ModuleSections, r \in ReplaceSections}

\* go.mod: unreadable, or what ParseGoMod returns
GoModFiles ==
    {[err |-> "reading go.mod"]} \cup
    {[err |-> "nil", modInfo |-> mi] : mi \in {x \in ModInfos : x.GoVersion = "1.21"}}

\* the loop over modInfo.Requires (update.go:54-60): the version of the
\* first line that requires the module, "" if there is none
RECURSIVE targetVersionFrom(_, _, _)
targetVersionFrom(requires, i, modulePath) ==
    IF i > Len(requires) THEN ""
    ELSE IF requires[i].Path = modulePath THEN requires[i].Version
    ELSE targetVersionFrom(requires, i + 1, modulePath)

\* the update of both command lines: the errors it can return, each with
\* the lockfile file afterwards.  The lockfile.Module written holds the URL
\* and the revision or not; the assignment to an entry of a nil map panics
updateWith(provenance, modulePath, file, gomod, fetchWorks) ==
    LET loaded == Load(file)
        targetVersion == targetVersionFrom(gomod.modInfo.Requires, 1, modulePath)
    IN
    IF loaded.err # "nil" THEN {[err |-> "loading lockfile", file |-> file]}
    ELSE IF gomod.err # "nil" THEN {[err |-> "parsing go.mod", file |-> file]}
    ELSE IF targetVersion = "" THEN {[err |-> "not found in go.mod", file |-> file]}
    ELSE IF ~fetchWorks THEN {[err |-> "fetching", file |-> file]}
    ELSE IF loaded.lf.Modules.nil THEN {[err |-> "panic", file |-> file]}
    ELSE SaveYAML([loaded.lf EXCEPT !.Modules =
                      Map(Put(@.m, modulePath,
                              IF provenance
                              THEN LockedModule(targetVersion,
                                                Fetched(modulePath, targetVersion))
                              ELSE HashedModule(targetVersion,
                                                Fetched(modulePath, targetVersion))))],
                  file)

\* runUpdate (cmd/update.go:32-114): the entry holds the version, the
\* hash, the URL and the revision
runUpdate(modulePath, file, gomod, fetchWorks) ==
    updateWith(TRUE, modulePath, file, gomod, fetchWorks)

\* cmdUpdate (main.go:293-388): the entry holds the version and the hash
cmdUpdate(modulePath, file, gomod, fetchWorks) ==
    updateWith(FALSE, modulePath, file, gomod, fetchWorks)

InitUpdate ==
    /\ NoFetch
    /\ inp \in [fn : {"update"}, cli : {"cmd", "main"}, modulePath : VerifyPaths,
                 file : LockfileFiles, gomod : GoModFiles, fetchWorks : BOOLEAN]
    /\ out = NoOutput

\* nopher update <module-path>
Update ==
    /\ inp.fn = "update"
    /\ ~out.set
    /\ \E outcome \in IF inp.cli = "cmd"
                      THEN runUpdate(inp.modulePath, inp.file, inp.gomod, inp.fetchWorks)
                      ELSE cmdUpdate(inp.modulePath, inp.file, inp.gomod, inp.fetchWorks) :
         out' = Output(outcome)
    /\ UNCHANGED <<fetcher, env, cache, pc, loc, last, tmp, ncalls, nfault, inp>>

SpecUpdate == InitUpdate /\ [][Update]_vars

\* the lines of go.mod that require the module
RequiredVersions(gomod, modulePath) ==
    {gomod.modInfo.Requires[i].Version :
        i \in {j \in DOMAIN gomod.modInfo.Requires :
                  gomod.modInfo.Requires[j].Path = modulePath}}

\* the failures of update before it saves
UpdateFailures == {"loading lockfile", "parsing go.mod", "not found in go.mod", "fetching"}

\* C29: a successful update of module M leaves a lockfile that differs
\* from the one loaded in the entry of M only, which holds the version
\* go.mod requires and the hash, URL and revision fetched for it; an update
\* that fails on the lockfile, on go.mod, on M not being required or on the
\* fetch leaves the lockfile file as it was.
C29_UpdateChangesOneEntry ==
    (out.set /\ inp.fn = "update") =>
        /\ out.val.err = "nil" =>
              LET before == Load(inp.file).lf
                  after  == Load(out.val.file).lf
                  M      == inp.modulePath
              IN
              /\ after.Schema = before.Schema
              /\ after.Go = before.Go
              /\ after.Replace.m = before.Replace.m
              /\ DOMAIN after.Modules.m = DOMAIN before.Modules.m \cup {M}
              /\ \A path \in DOMAIN before.Modules.m \ {M} :
                    after.Modules.m[path] = before.Modules.m[path]
              /\ after.Modules.m[M].Version \in RequiredVersions(inp.gomod, M)
              /\ after.Modules.m[M] =
                    LockedModule(after.Modules.m[M].Version,
                                 Fetched(M, after.Modules.m[M].Version))
        /\ out.val.err \in UpdateFailures => out.val.file = inp.file
        /\ (Load(inp.file).err # "nil" \/ inp.gomod.err # "nil" \/ ~inp.fetchWorks
                \/ (inp.gomod.err = "nil" /\ RequiredVersions(inp.gomod, inp.modulePath) = {}))
              => out.val.err \in UpdateFailures

(***************************************************************************)
(* ParseNetrcFile on a file that holds a macdef token.                     *)
(***************************************************************************)

Macdef == <<"m", "a", "c", "d", "e", "f">>

\* the position of the first macdef word, 0 if there is none
FirstMacdef(words) ==
    IF \E i \in DOMAIN words : words[i] = Macdef
    THEN CHOOSE i \in DOMAIN words :
            words[i] = Macdef /\ \A j \in 1..(i - 1) : words[j] # Macdef
    ELSE 0

\* the first macdef word is read as a keyword: it is the first word, or it
\* follows a host name, a login name or the word default, none of which
\* takes the next word as its value
MacdefIsKeyword(words) ==
    LET k == FirstMacdef(words) IN
    /\ k > 0
    /\ k > 1 => words[k - 1] \in NetrcHosts \cup {<<"d", "e", "f", "a", "u", "l", "t">>}

\* the entries declared before the macdef token: those of the file cut
\* before it
DeclaredBeforeMacdef(words, layout) ==
    ParseNetrcFile(FileLines(SubSeq(words, 1, FirstMacdef(words) - 1), layout))

\* C30: when the file holds a macdef token, the parsed result holds
\* exactly the entries declared before it, each with its login and
\* password, and nothing of what follows it.
C30_MacdefKeepsEarlierEntries ==
    (out.set /\ inp.fn = "FindEntry" /\ MacdefIsKeyword(inp.words)) =>
        out.val.entries = DeclaredBeforeMacdef(inp.words, inp.layout)

====
